---- MODULE Spec2Model ----
(***************************************************************************)
(* A model of pghbustime: the BustimeAPI transport / response-parsing      *)
(* layer (src/pghbustime/interface.py), its helpers                        *)
(* (src/pghbustime/utils.py) and the entities built on it                  *)
(* (src/pghbustime/datatypes.py).                                          *)
(*                                                                         *)
(* Text is a sequence of atoms.  An atom is a word or a punctuation mark   *)
(* that the code never looks inside; Python's needle in text is          *)
(* contiguous-subsequence containment over atoms and str.lower() maps      *)
(* atoms.  The vocabulary is chosen so that no atom contains one of the    *)
(* needles the code searches for ("error", "bustime-response",             *)
(* "transaction limit") except by being equal to it.                       *)
(***************************************************************************)
EXTENDS Integers, Sequences, FiniteSets, TLC

VARIABLES
    api,        \* the BustimeAPI instance the current call runs on
    resp,       \* the raw body the server answers with / handed to the parser
    call,       \* the operation last invoked, with its arguments
    outcome,    \* what that operation returned or raised
    nreq,       \* number of HTTP requests that operation issued
    url,        \* the request target that operation built last
    net,        \* whether the server can be reached ("up") or not ("down")
    pc,         \* the caller: "ready" to call, or holding a result ("called")
    qjDefault,  \* queryjoin's default argdict, one dict shared by all calls
    sent,       \* the requests that operation issued, in order
    nextid,     \* the identity the next object kept by a cache will get
    heldbus,    \* the Bus the caller holds
    pred,       \* the Prediction the caller holds
    route,      \* the Route the caller holds
    all_routes, \* Route.all_routes, the registry shared by the process
    routesFetched, \* number of route-list requests issued so far
    callers     \* the threads that are inside Route.get, each with its locals

vars == <<api, resp, call, outcome, nreq, url, net, pc, qjDefault,
          sent, nextid, heldbus, pred, route, all_routes, routesFetched, callers>>

\* the state of the entities, which the calls on a bare BustimeAPI leave alone
entityVars == <<sent, nextid, heldbus, pred, route, all_routes, routesFetched, callers>>

-----------------------------------------------------------------------------
(* Bounds *)

\* Largest number of child elements of a response's root element.
MaxChildren == 2

-----------------------------------------------------------------------------
(* Text helpers *)

\* the value of e handed to F; e is computed once
Bind(e, F(_)) == CHOOSE y \in {F(x) : x \in {e}} : TRUE

RECURSIVE Join(_, _)
\* sep.join(parts), parts a sequence of texts
Join(sep, parts) ==
    Bind(parts \o <<>>, LAMBDA p :
        IF Len(p) = 0 THEN <<>>
        ELSE IF Len(p) = 1 THEN p[1]
        ELSE p[1] \o sep \o Join(sep, Tail(p)))

\* Python's needle in text
Contains(needle, text) ==
    \E t \in {text} :
        \E i \in 0..(Len(t) - Len(needle)) :
            \A j \in 1..Len(needle) : t[i + j] = needle[j]

\* str.lower() on the atoms of the vocabulary that carry upper-case letters
LowerAtom(a) ==
    CASE a = "Transaction" -> "transaction"
      [] a = "TRANSACTION" -> "transaction"
      [] a = "LIMIT"       -> "limit"
      [] a = "Invalid"     -> "invalid"
      [] a = "API"         -> "api"
      [] a = "No"          -> "no"
      [] a = "Farebox"     -> "farebox"
      [] a = "BELLEVUE"    -> "bellevue"
      [] a = "AIRPORT"     -> "airport"
      [] a = "FLYER"       -> "flyer"
      [] a = "28X"         -> "28x"
      [] a = "INBOUND"     -> "inbound"
      [] a = "OUTBOUND"    -> "outbound"
      [] a = "Forbes"      -> "forbes"
      [] a = "Murray"      -> "murray"
      [] a = "Penn"        -> "penn"
      [] a = "Fifth"       -> "fifth"
      [] a = "Wood"        -> "wood"
      [] OTHER             -> a

Lower(text) == [i \in 1..Len(text) |-> LowerAtom(text[i])]

\* words separated by single blanks
Words(ws) == Join(<<" ">>, [i \in 1..Len(ws) |-> <<ws[i]>>])

-----------------------------------------------------------------------------
(* Python values passed as parameters: None, text, an integer, a list (or  *)
(* tuple) and a generator.                                                 *)

PyNone    == [t |-> "none", s |-> <<>>, n |-> 0, xs |-> <<>>]
PyStr(s)  == [t |-> "str",  s |-> s,    n |-> 0, xs |-> <<>>]
PyInt(n)  == [t |-> "int",  s |-> <<>>, n |-> n, xs |-> <<>>]
PyList(xs) == [t |-> "list", s |-> <<>>, n |-> 0, xs |-> xs]
PyGen(xs)  == [t |-> "gen",  s |-> <<>>, n |-> 0, xs |-> xs]

\* bool(v), as if v and v and w take it
Truthy(v) ==
    CASE v.t = "none" -> FALSE
      [] v.t = "str"  -> v.s # <<>>
      [] v.t = "int"  -> v.n # 0
      [] v.t = "list" -> v.xs # <<>>
      [] OTHER        -> TRUE

\* str(v) of a text or an integer
Str(v) == IF v.t = "int" THEN <<ToString(v.n)>> ELSE v.s

\* repr(v) of a text or an integer, as a list prints its elements
Repr(v) == IF v.t = "int" THEN <<ToString(v.n)>> ELSE <<"'">> \o v.s \o <<"'">>

\* "{}".format(v)
Format(v) ==
    CASE v.t = "none" -> <<"None">>
      [] v.t = "list" ->
            <<"[">> \o Join(<<",", " ">>, [i \in 1..Len(v.xs) |-> Repr(v.xs[i])]) \o <<"]">>
      [] v.t = "gen"  -> <<"<generator object>">>
      [] OTHER        -> Str(v)

-----------------------------------------------------------------------------
(* BustimeAPI class attributes *)

RESPONSE_TOKEN == "bustime-response"
ERROR_TOKEN == "error"

\* the phrase errorhandle looks for in a lower-cased message
LimitPhrase == <<"transaction", " ", "limit">>

\* class BustimeError(Exception); APILimitExceeded and NoPredictionsError
\* derive from it.
IsBustimeError(exc) ==
    exc \in {"BustimeError", "APILimitExceeded", "NoPredictionsError"}

\* BustimeAPI(apikey, locale, _format, tmres): "json" and "xml" are the two
\* formats the class documents, "csv" stands for any other value.
ValidFormats == {"json", "xml"}
Formats == ValidFormats \cup {"csv"}
Keys == {"BOGUSAPIKEY", "OTHERKEY"}

BustimeAPI(apikey, format) ==
    [key |-> apikey, format |-> format,
     args |-> << <<"tmres", PyStr(<<"s">>)>>, <<"localestring", PyStr(<<"en_US">>)>> >>]

ApiInstances == {BustimeAPI(k, f) : k \in Keys, f \in Formats}

-----------------------------------------------------------------------------
(* Raw responses.  A well-formed XML body is a root element with child     *)
(* elements, each child a sequence of <key>text</key> fields; the raw text *)
(* the library receives is its serialization.  A body that is not XML is   *)
(* just its text.                                                          *)

Field(k, t) == [key |-> k, text |-> t]
Child(n, fs) == [name |-> n, fields |-> fs]

ErrKey ==
    Child("error", << Field("msg", Words(<<"Invalid", "API", "access", "key", "supplied">>)) >>)
ErrLimit ==
    Child("error", << Field("msg", Words(<<"Transaction", "limit", "for", "current", "day",
                                           "has", "been", "exceeded">>)) >>)
ErrNoData ==
    Child("error", << Field("rt", <<"28X">>),
                      Field("msg", Words(<<"No", "data", "found", "for", "parameter">>)) >>)
Route13 ==
    Child("route", << Field("rt", <<"13">>), Field("rtnm", <<"BELLEVUE">>) >>)
Route28X ==
    Child("route", << Field("rt", <<"28X">>), Field("rtnm", Words(<<"AIRPORT", "FLYER">>)) >>)
\* a service bulletin whose text happens to use the word "error"
BulletinFarebox ==
    Child("sb", << Field("sbj", <<"Fare">>),
                   Field("brf", Words(<<"Farebox", "error", "on", "28X">>)) >>)
\* a paragraph that mentions the wrapper's name
NoteUpstream ==
    Child("p", << Field("b", Words(<<"no", "bustime-response", "from", "upstream">>)) >>)

ErrorChildren == {ErrKey, ErrLimit, ErrNoData}
DataChildren == {Route13, Route28X, BulletinFarebox, NoteUpstream}
ChildPool == ErrorChildren \cup DataChildren

Roots == {RESPONSE_TOKEN, "html"}

ChildSeqs == UNION {[1..n -> ChildPool] : n \in 0..MaxChildren}

XmlBody(root, children) ==
    [wellformed |-> TRUE, root |-> root, children |-> children, plain |-> <<>>]
PlainBody(text) ==
    [wellformed |-> FALSE, root |-> "", children |-> <<>>, plain |-> text]

PlainTexts == { <<"thisshouldbreak">>,
                Words(<<"bustime-response", "is", "down">>),
                Words(<<"bustime-response", "error">>) }

Responses ==
    {XmlBody(r, cs) : r \in Roots, cs \in ChildSeqs}
        \cup {PlainBody(t) : t \in PlainTexts}

Open(n) == <<"<", n, ">">>
Close(n) == <<"</", n, ">">>

SerializeField(f) == Open(f.key) \o f.text \o Close(f.key)
SerializeChild(c) ==
    Open(c.name)
        \o Join(<<>>, [i \in 1..Len(c.fields) |-> SerializeField(c.fields[i])])
        \o Close(c.name)

\* the text of a body, as requests.get(url).content delivers it
RawText(r) ==
    IF r.wellformed
    THEN Open(r.root)
            \o Join(<<>>, [i \in 1..Len(r.children) |-> SerializeChild(r.children[i])])
            \o Close(r.root)
    ELSE r.plain

\* direct children of the root named n, in document order
ChildrenNamed(r, n) == SelectSeq(r.children, LAMBDA c : c.name = n)

HasWrapper(r) == r.wellformed /\ r.root = RESPONSE_TOKEN
ErrorsOf(r) == ChildrenNamed(r, ERROR_TOKEN)

-----------------------------------------------------------------------------
(* What a call returns or raises *)

NoOutcome ==
    [kind |-> "none", exc |-> "", rtype |-> "", tree |-> <<>>, text |-> <<>>]
\* return of a parsed tree ("tree"), of raw text ("raw") or of None ("None")
Return(rtype, tree, text) ==
    [kind |-> "return", exc |-> "", rtype |-> rtype, tree |-> tree, text |-> text]
Raise(exc, text) ==
    [kind |-> "raise", exc |-> exc, rtype |-> "", tree |-> <<>>, text |-> text]

NoCall == [op |-> "", endpt |-> "", params |-> <<>>]

\* an attribute that is not set, a caller that holds no such object
NoObj == [class |-> "none"]

\* no entity exists yet: the registry is the empty dict of the class body
NoEntities ==
    /\ sent = <<>>
    /\ nextid = 1
    /\ heldbus = NoObj
    /\ pred = NoObj
    /\ route = NoObj
    /\ all_routes = <<>>
    /\ routesFetched = 0
    /\ callers = <<>>

-----------------------------------------------------------------------------
(* xmltodict.parse: the root's children grouped by element name, in order  *)
(* of first appearance.  A name that occurs once maps to the bare record,  *)
(* a name that occurs several times to the list of its records.            *)

FirstIndexes(cs) ==
    SelectSeq([i \in 1..Len(cs) |-> i],
              LAMBDA i : \A j \in 1..(i - 1) : cs[j].name # cs[i].name)

XmlToDict(r) ==
    LET firsts == FirstIndexes(r.children)
    IN  [k \in 1..Len(firsts) |->
            LET nm    == r.children[firsts[k]].name
                items == ChildrenNamed(r, nm)
            IN  [key    |-> nm,
                 islist |-> Len(items) > 1,
                 items  |-> [i \in 1..Len(items) |-> items[i].fields]]]

HasKey(d, k) == \E i \in 1..Len(d) : d[i].key = k
Lookup(d, k) == d[CHOOSE i \in 1..Len(d) : d[i].key = k]

\* "{}: {}".format(k, v) for each item of one error record, joined by " "
RenderError(e) ==
    Join(<<" ">>, [i \in 1..Len(e) |-> <<e[i].key, ":", " ">> \o e[i].text])

\* any('transaction limit' in msg.lower() for msg in errors.values())
Overlimit(e) ==
    \E i \in 1..Len(e) : Contains(LimitPhrase, Lower(e[i].text))

\* err.find('msg'): the first <msg> field of an <error> element
HasMsg(c) == \E i \in 1..Len(c.fields) : c.fields[i].key = "msg"
MsgText(c) ==
    c.fields[CHOOSE i \in 1..Len(c.fields) :
                /\ c.fields[i].key = "msg"
                /\ \A j \in 1..(i - 1) : c.fields[j].key # "msg"].text

ApiReturned(messages) == <<"API returned: ">> \o messages
QuotaMessage == <<"This API key has used up its daily quota of calls.">>

\* errorhandle_json without its branch for a list of errors: only the first
\* error of the response is reported
errorhandle_json_firstonly(r) ==
    IF ~r.wellformed THEN Raise("ExpatError", <<>>)
    ELSE IF r.root # RESPONSE_TOKEN THEN Raise("KeyError", <<RESPONSE_TOKEN>>)
    ELSE IF Len(r.children) = 0 THEN Raise("TypeError", <<>>)
    ELSE IF ~HasKey(XmlToDict(r), ERROR_TOKEN) THEN Raise("KeyError", <<ERROR_TOKEN>>)
    ELSE LET errors == Lookup(XmlToDict(r), ERROR_TOKEN)
         IN  IF Overlimit(errors.items[1])
             THEN Raise("APILimitExceeded", QuotaMessage)
             ELSE Raise("BustimeError", ApiReturned(RenderError(errors.items[1])))

errorhandle_json(r) ==
    IF ~r.wellformed THEN Raise("ExpatError", <<>>)
    ELSE IF r.root # RESPONSE_TOKEN THEN Raise("KeyError", <<RESPONSE_TOKEN>>)
    ELSE IF Len(r.children) = 0 THEN Raise("TypeError", <<>>)
    ELSE IF ~HasKey(XmlToDict(r), ERROR_TOKEN) THEN Raise("KeyError", <<ERROR_TOKEN>>)
    ELSE LET errors == Lookup(XmlToDict(r), ERROR_TOKEN)
         IN  IF errors.islist /\ Len(errors.items) > 1
             THEN Raise("BustimeError",
                        ApiReturned(Join(<<",", " ">>,
                            [i \in 1..Len(errors.items) |-> RenderError(errors.items[i])])))
             ELSE IF Overlimit(errors.items[1])
                  THEN Raise("APILimitExceeded", QuotaMessage)
                  ELSE Raise("BustimeError", ApiReturned(RenderError(errors.items[1])))

errorhandle_xml(r) ==
    IF ~r.wellformed THEN Raise("ParseError", <<>>)
    ELSE LET errors == ChildrenNamed(r, ERROR_TOKEN)
         IN  IF \E i \in 1..Len(errors) : ~HasMsg(errors[i])
             THEN Raise("AttributeError", <<>>)
             ELSE Raise("BustimeError",
                        ApiReturned(Join(<<",", " ">>,
                            [i \in 1..Len(errors) |-> MsgText(errors[i])])))

\* BustimeAPI.errorhandle(resp)
errorhandle(a, r) ==
    IF a.format = "json" THEN errorhandle_json(r)
    ELSE IF a.format = "xml" THEN errorhandle_xml(r)
    \* "...{}." % self.format: the % operator finds no conversion in the text
    ELSE Raise("TypeError", <<>>)

\* parseresponse without its elif self.ERROR_TOKEN in resp branch
parseresponse_nohandoff(a, r) ==
    IF ~Contains(<<RESPONSE_TOKEN>>, RawText(r))
    THEN Raise("BustimeError",
               <<"The Bustime API returned an invalid response: ">> \o RawText(r))
    ELSE IF a.format = "json"
         THEN IF ~r.wellformed THEN Raise("ExpatError", <<>>)
              ELSE IF r.root # RESPONSE_TOKEN THEN Raise("KeyError", <<RESPONSE_TOKEN>>)
              ELSE IF Len(r.children) = 0 THEN Return("None", <<>>, <<>>)
              ELSE Return("tree", XmlToDict(r), <<>>)
         ELSE IF a.format = "xml"
         THEN Return("raw", <<>>, RawText(r))
         ELSE Return("None", <<>>, <<>>)

\* BustimeAPI.parseresponse(resp)
parseresponse(a, r) ==
    IF ~Contains(<<RESPONSE_TOKEN>>, RawText(r))
    THEN Raise("BustimeError",
               <<"The Bustime API returned an invalid response: ">> \o RawText(r))
    ELSE IF Contains(<<ERROR_TOKEN>>, RawText(r))
    THEN errorhandle(a, r)
    ELSE IF a.format = "json"
         THEN IF ~r.wellformed THEN Raise("ExpatError", <<>>)
              ELSE IF r.root # RESPONSE_TOKEN THEN Raise("KeyError", <<RESPONSE_TOKEN>>)
              ELSE IF Len(r.children) = 0 THEN Return("None", <<>>, <<>>)
              ELSE Return("tree", XmlToDict(r), <<>>)
         ELSE IF a.format = "xml"
         THEN Return("raw", <<>>, RawText(r))
         ELSE Return("None", <<>>, <<>>)

-----------------------------------------------------------------------------
(* The parser applied to a body the caller holds (src/tests.py calls       *)
(* parseresponse and errorhandle this way).                                *)

InitParse ==
    /\ api \in ApiInstances
    /\ resp \in Responses
    /\ call = NoCall
    /\ outcome = NoOutcome
    /\ nreq = 0
    /\ url = <<>>
    /\ net = "up"
    /\ pc = "ready"
    /\ qjDefault = <<>>
    /\ NoEntities

ParseResponse ==
    /\ call' = [NoCall EXCEPT !.op = "parseresponse"]
    /\ outcome' = parseresponse(api, resp)
    /\ UNCHANGED <<api, resp, nreq, url, net, pc, qjDefault>>
    /\ UNCHANGED entityVars

ErrorHandle ==
    /\ call' = [NoCall EXCEPT !.op = "errorhandle"]
    /\ outcome' = errorhandle(api, resp)
    /\ UNCHANGED <<api, resp, nreq, url, net, pc, qjDefault>>
    /\ UNCHANGED entityVars

NextParse == ParseResponse \/ ErrorHandle

SpecParse == InitParse /\ [][NextParse]_vars

-----------------------------------------------------------------------------
(* Properties of the parser, checked under SpecParse *)

RECURSIVE Split(_, _)
\* text.split(a) for a one-atom separator a
Split(text, a) ==
    IF \A i \in 1..Len(text) : text[i] # a THEN <<text>>
    ELSE LET k == CHOOSE i \in 1..Len(text) :
                      text[i] = a /\ \A j \in 1..(i - 1) : text[j] # a
         IN  <<SubSeq(text, 1, k - 1)>> \o Split(SubSeq(text, k + 1, Len(text)), a)

\* the message of an <error> element names the rate limit, in any letter case
IsLimitError(c) == HasMsg(c) /\ Contains(LimitPhrase, Lower(MsgText(c)))

Parsed == call.op = "parseresponse"
Classified == call.op \in {"parseresponse", "errorhandle"}

\* C1: parseresponse applied to a body that has the bustime-response wrapper
\* and no error child returns (it does not raise), whatever its data children
\* are called and say.
C1_NoErrorChildNeverRaises ==
    (Parsed /\ HasWrapper(resp) /\ Len(ErrorsOf(resp)) = 0)
        => outcome.kind = "return"

\* C2: on an API instance of a documented format, parseresponse applied to a
\* body whose wrapper has at least one error child returns nothing: its
\* outcome is errorhandle's, and that is BustimeError or a subtype of it.
C2_ErrorChildHandsOffAndRaises ==
    (Parsed /\ api.format \in ValidFormats /\ HasWrapper(resp) /\ Len(ErrorsOf(resp)) >= 1)
        => /\ outcome.kind = "raise"
           /\ IsBustimeError(outcome.exc)
           /\ outcome = errorhandle(api, resp)

C2_Witness ==
    /\ Parsed /\ api.format \in ValidFormats
    /\ HasWrapper(resp) /\ Len(ErrorsOf(resp)) >= 1
    /\ outcome.kind = "raise" /\ outcome.exc = "BustimeError"

\* C3: parseresponse applied to a body without the bustime-response wrapper
\* element raises BustimeError.
C3_NoWrapperRaisesBustimeError ==
    (Parsed /\ ~HasWrapper(resp))
        => (outcome.kind = "raise" /\ outcome.exc = "BustimeError")

\* C4: parseresponse applied to an envelope with exactly one error child whose
\* message names the rate limit raises APILimitExceeded.
C4_SingleLimitErrorRaisesQuota ==
    (/\ Parsed /\ api.format \in ValidFormats /\ HasWrapper(resp)
     /\ Len(ErrorsOf(resp)) = 1 /\ IsLimitError(ErrorsOf(resp)[1]))
        => (outcome.kind = "raise" /\ outcome.exc = "APILimitExceeded")

\* C5: for any number of error children and either documented format, the
\* classifier raises APILimitExceeded exactly when some error message names
\* the rate limit, and the generic BustimeError otherwise.
C5_AnyLimitErrorRaisesQuota ==
    (/\ Classified /\ api.format \in ValidFormats /\ HasWrapper(resp)
     /\ Len(ErrorsOf(resp)) >= 1)
        => /\ outcome.kind = "raise"
           /\ outcome.exc =
                IF \E i \in 1..Len(ErrorsOf(resp)) : IsLimitError(ErrorsOf(resp)[i])
                THEN "APILimitExceeded" ELSE "BustimeError"

\* C6: for an envelope with two or more error children, none of them a
\* rate-limit message, the one BustimeError raised has a message that splits
\* at its commas into one part per error, in response order, each part
\* holding that error's message text.
C6_MultiErrorMessageCarriesAll ==
    LET errs == ErrorsOf(resp)
    IN  (/\ Classified /\ api.format \in ValidFormats /\ HasWrapper(resp)
         /\ Len(errs) >= 2
         /\ \A i \in 1..Len(errs) : ~IsLimitError(errs[i]))
            => /\ outcome.kind = "raise"
               /\ outcome.exc = "BustimeError"
               /\ LET parts == Split(outcome.text, ",")
                  IN  /\ Len(parts) = Len(errs)
                      /\ \A i \in 1..Len(errs) : Contains(MsgText(errs[i]), parts[i])

C6_Witness ==
    /\ Parsed /\ HasWrapper(resp)
    /\ resp.children = <<ErrKey, ErrNoData>>
    /\ outcome.kind = "raise" /\ outcome.exc = "BustimeError"
    /\ Len(Split(outcome.text, ",")) = 2

-----------------------------------------------------------------------------
(* utils.py *)

\* listlike(obj): has __iter__ and is neither str nor unicode
listlike(v) == v.t \in {"list", "gen"}

\* d[k] = v on a dict kept as a sequence of <<key, value>> pairs
DictSet(d, k, v) ==
    IF \E i \in 1..Len(d) : d[i][1] = k
    THEN [i \in 1..Len(d) |-> IF d[i][1] = k THEN <<k, v>> ELSE d[i]]
    ELSE Append(d, <<k, v>>)

RECURSIVE DictUpdate(_, _)
\* d.update(kw)
DictUpdate(d, kw) ==
    IF kw = <<>> THEN d
    ELSE DictUpdate(DictSet(d, kw[1][1], kw[1][2]), Tail(kw))

\* the dict queryjoin reads: if kwargs: argdict.update(kwargs)
queryjoin_dict(argdict, kwargs) ==
    IF kwargs # <<>> THEN DictUpdate(argdict, kwargs) ELSE argdict

\* queryjoin(argdict, **kwargs): "k=v" for each item whose value is not None,
\* joined by "&"
queryjoin(argdict, kwargs) ==
    LET items == SelectSeq(queryjoin_dict(argdict, kwargs), LAMBDA p : p[2].t # "none")
    IN  Join(<<"&">>, [i \in 1..Len(items) |-> <<items[i][1], "=">> \o Format(items[i][2])])

-----------------------------------------------------------------------------
(* BustimeAPI.endpoint, BustimeAPI.response and the calls built on them.   *)
(* dflt is queryjoin's default argdict when the call starts.             *)

ENDPOINTS ==
    [SYSTIME      |-> "http://realtime.portauthority.org/bustime/api/v1/gettime",
     VEHICLES     |-> "http://realtime.portauthority.org/bustime/api/v1/getvehicles",
     ROUTES       |-> "http://realtime.portauthority.org/bustime/api/v1/getroutes",
     R_DIRECTIONS |-> "http://realtime.portauthority.org/bustime/api/v1/getdirections",
     STOPS        |-> "http://realtime.portauthority.org/bustime/api/v1/getstops",
     R_GEO        |-> "http://realtime.portauthority.org/bustime/api/v1/getpatterns",
     PREDICTION   |-> "http://realtime.portauthority.org/bustime/api/v1/getpredictions",
     BULLETINS    |-> "http://realtime.portauthority.org/bustime/api/v1/getservicebulletins"]

KeyArg(a) == << <<"key", PyStr(<<a.key>>)>> >>

\* queryjoin's default argdict after endpoint's queryjoin(key=self.key)
endpoint_default(a, dflt) == queryjoin_dict(dflt, KeyArg(a))

\* endpoint(endpt, argdict); an omitted argdict (None) is the empty sequence
endpoint(a, endpt, argdict, dflt) ==
    LET instanceargs == queryjoin(dflt, KeyArg(a)) \o <<"&">> \o queryjoin(a.args, <<>>)
        querystring  == IF argdict # <<>>
                        THEN instanceargs \o <<"&">> \o queryjoin(argdict, <<>>)
                        ELSE instanceargs
    IN  <<ENDPOINTS[endpt], "?">> \o querystring

\* response(url): one GET, then parseresponse on the body
response(a, r, nt) ==
    IF nt = "down" THEN Raise("ConnectionError", <<>>) ELSE parseresponse(a, r)

\* what a call did: its outcome, the requests it issued, the target it built
\* and queryjoin's default argdict when it ended
Done(out, n, u, d) == [outcome |-> out, nreq |-> n, url |-> u, dflt |-> d]

Rejected(text, d) == Done(Raise("ValueError", <<text>>), 0, <<>>, d)

\* url = self.endpoint(endpt, argdict); return self.response(url)
Request(a, endpt, argdict, d, r, nt) ==
    Done(response(a, r, nt), 1, endpoint(a, endpt, argdict, d), endpoint_default(a, d))

\* ",".join(map(str, v))
JoinStr(v) == PyStr(Join(<<",">>, [i \in 1..Len(v.xs) |-> Str(v.xs[i])]))
\* ",".join(v), a TypeError unless every element is text
Joinable(v) == \A i \in 1..Len(v.xs) : v.xs[i].t = "str"
JoinRaw(v) == PyStr(Join(<<",">>, [i \in 1..Len(v.xs) |-> v.xs[i].s]))

\* vehicles without its test for vid and rt given together
vehicles_nobothcheck(a, vid, rt, d, r, nt) ==
    IF ~(Truthy(vid) \/ Truthy(rt))
    THEN Rejected("You must specify either the vid or rt parameter.", d)
    ELSE LET rt2  == IF listlike(rt) THEN JoinStr(rt) ELSE rt
             vid2 == IF listlike(vid) THEN JoinStr(vid) ELSE vid
         IN  Request(a, "VEHICLES", << <<"vid", vid2>>, <<"rt", rt2>> >>, d, r, nt)

\* vehicles(vid=None, rt=None)
vehicles(a, vid, rt, d, r, nt) ==
    IF Truthy(vid) /\ Truthy(rt)
    THEN Rejected("The vid and route parameters cannot be specified simultaneously.", d)
    ELSE IF ~(Truthy(vid) \/ Truthy(rt))
    THEN Rejected("You must specify either the vid or rt parameter.", d)
    ELSE LET rt2  == IF listlike(rt) THEN JoinStr(rt) ELSE rt
             vid2 == IF listlike(vid) THEN JoinStr(vid) ELSE vid
         IN  Request(a, "VEHICLES", << <<"vid", vid2>>, <<"rt", rt2>> >>, d, r, nt)

\* geopatterns(rt=None, pid=None); line 272 builds a ValueError and drops it
geopatterns(a, rt, pid, d, r, nt) ==
    IF Truthy(rt) /\ Truthy(pid)
    THEN Rejected("The rt and pid parameters cannot be specified simultaneously.", d)
    ELSE IF listlike(pid) /\ ~Joinable(pid)
    THEN Done(Raise("TypeError", <<>>), 0, <<>>, d)
    ELSE LET pid2 == IF listlike(pid) THEN JoinRaw(pid) ELSE pid
         IN  Request(a, "R_GEO", << <<"rt", rt>>, <<"pid", pid2>> >>, d, r, nt)

\* predictions(stpid="", rt="", vid="", maxpredictions="")
predictions(a, stpid, rt, vid, top, d, r, nt) ==
    IF (Truthy(stpid) /\ Truthy(vid)) \/ (Truthy(rt) /\ Truthy(vid))
    THEN Rejected("These parameters cannot be specified simultaneously.", d)
    ELSE IF ~(Truthy(stpid) \/ Truthy(rt) \/ Truthy(vid))
    THEN Rejected("You must specify a parameter.", d)
    ELSE IF \E v \in {stpid, rt, vid} : listlike(v) /\ ~Joinable(v)
    THEN Done(Raise("TypeError", <<>>), 0, <<>>, d)
    ELSE LET stpid2 == IF listlike(stpid) THEN JoinRaw(stpid) ELSE stpid
             rt2    == IF listlike(rt) THEN JoinRaw(rt) ELSE rt
             vid2   == IF listlike(vid) THEN JoinRaw(vid) ELSE vid
         IN  IF Truthy(stpid2) \/ (Truthy(rt2) /\ Truthy(stpid2)) \/ Truthy(vid2)
             THEN Request(a, "PREDICTION",
                          << <<"rt", rt2>>, <<"stpid", stpid2>>, <<"vid", vid2>>, <<"top", top>> >>,
                          d, r, nt)
             ELSE Done(Return("None", <<>>, <<>>), 0, <<>>, d)

\* bulletins(rt="", rtdir="", stpid="")
bulletins(a, rt, rtdir, stpid, d, r, nt) ==
    IF ~(Truthy(rt) \/ Truthy(stpid)) \/ (Truthy(rtdir) /\ ~(Truthy(rt) \/ Truthy(stpid)))
    THEN Rejected("You must specify a parameter.", d)
    ELSE IF \E v \in {stpid, rt} : listlike(v) /\ ~Joinable(v)
    THEN Done(Raise("TypeError", <<>>), 0, <<>>, d)
    ELSE LET stpid2 == IF listlike(stpid) THEN JoinRaw(stpid) ELSE stpid
             rt2    == IF listlike(rt) THEN JoinRaw(rt) ELSE rt
         IN  Request(a, "BULLETINS",
                     << <<"rt", rt2>>, <<"rtdir", rtdir>>, <<"stpid", stpid2>> >>, d, r, nt)

-----------------------------------------------------------------------------
(* A client session: one caller invoking the library, call after call.     *)
(* The server's answer and its reachability are fixed for the session.     *)

\* values a caller passes for an ID parameter
IdValues ==
    { PyNone, PyStr(<<>>), PyStr(<<"28X">>), PyInt(4123),
      PyList(<< PyStr(<<"61C">>), PyStr(<<"28X">>) >>),
      PyList(<< PyInt(5666), PyInt(5667) >>),
      PyGen(<< PyStr(<<"61C">>), PyStr(<<"28X">>) >>) }
FewValues ==
    { PyStr(<<>>), PyStr(<<"4123">>), PyList(<< PyStr(<<"61C">>), PyStr(<<"28X">>) >>) }
TopValues == { PyStr(<<>>), PyInt(5) }
DirValues == { PyStr(<<>>), PyStr(<<"INBOUND">>) }

\* argdict values handed to endpoint and queryjoin
ArgDicts ==
    { <<>> }
      \cup { << <<"rt", v>> >> : v \in IdValues }
      \cup { << <<"stpid", PyInt(4123)>>, <<"rt", v>> >> : v \in IdValues }
\* keyword arguments handed to queryjoin
Kwargs == { << <<"top", PyInt(5)>> >> }

\* bodies the server answers a request with
ServerResponses ==
    { XmlBody(RESPONSE_TOKEN, <<Route13, Route28X>>),
      XmlBody(RESPONSE_TOKEN, <<ErrNoData>>),
      PlainBody(<<"thisshouldbreak">>) }

InitCall ==
    /\ api \in ApiInstances
    /\ resp \in ServerResponses
    /\ net \in {"up", "down"}
    /\ call = NoCall
    /\ outcome = NoOutcome
    /\ nreq = 0
    /\ url = <<>>
    /\ pc = "ready"
    /\ qjDefault = <<>>
    /\ NoEntities

\* the effect of a library call on the session
Finish(op, endpt, params, done) ==
    /\ call' = [op |-> op, endpt |-> endpt, params |-> params]
    /\ outcome' = done.outcome
    /\ nreq' = done.nreq
    /\ url' = done.url
    /\ qjDefault' = done.dflt
    /\ pc' = "called"
    /\ UNCHANGED <<api, resp, net>>
    /\ UNCHANGED entityVars

Endpoint ==
    /\ pc = "ready"
    /\ \E e \in DOMAIN ENDPOINTS, ad \in ArgDicts :
          Finish("endpoint", e, ad,
                 Done(Return("raw", <<>>, endpoint(api, e, ad, qjDefault)), 0,
                      endpoint(api, e, ad, qjDefault), endpoint_default(api, qjDefault)))

\* queryjoin(argdict) called directly, as src/tests.py does
QueryJoinDict ==
    /\ pc = "ready"
    /\ \E ad \in ArgDicts :
          Finish("queryjoin", "", ad,
                 Done(Return("raw", <<>>, queryjoin(ad, <<>>)), 0, <<>>, qjDefault))

\* queryjoin(**kwargs) called directly: argdict is the default dict
QueryJoinKw ==
    /\ pc = "ready"
    /\ \E kw \in Kwargs :
          Finish("queryjoin_kw", "", kw,
                 Done(Return("raw", <<>>, queryjoin(qjDefault, kw)), 0, <<>>,
                      queryjoin_dict(qjDefault, kw)))

Vehicles ==
    /\ pc = "ready"
    /\ \E vid \in IdValues, rt \in IdValues :
          Finish("vehicles", "VEHICLES", << <<"vid", vid>>, <<"rt", rt>> >>,
                 vehicles(api, vid, rt, qjDefault, resp, net))

Geopatterns ==
    /\ pc = "ready"
    /\ \E rt \in IdValues, pid \in IdValues :
          Finish("geopatterns", "R_GEO", << <<"rt", rt>>, <<"pid", pid>> >>,
                 geopatterns(api, rt, pid, qjDefault, resp, net))

Predictions ==
    /\ pc = "ready"
    /\ \E stpid \in FewValues, rt \in FewValues, vid \in FewValues, top \in TopValues :
          Finish("predictions", "PREDICTION",
                 << <<"stpid", stpid>>, <<"rt", rt>>, <<"vid", vid>>, <<"top", top>> >>,
                 predictions(api, stpid, rt, vid, top, qjDefault, resp, net))

Bulletins ==
    /\ pc = "ready"
    /\ \E rt \in FewValues, rtdir \in DirValues, stpid \in FewValues :
          Finish("bulletins", "BULLETINS",
                 << <<"rt", rt>>, <<"rtdir", rtdir>>, <<"stpid", stpid>> >>,
                 bulletins(api, rt, rtdir, stpid, qjDefault, resp, net))

\* the caller has dealt with the result and is ready for its next call
Continue ==
    /\ pc = "called"
    /\ pc' = "ready"
    /\ call' = NoCall
    /\ outcome' = NoOutcome
    /\ nreq' = 0
    /\ url' = <<>>
    /\ UNCHANGED <<api, resp, net, qjDefault>>
    /\ UNCHANGED entityVars

NextCall ==
    \/ Endpoint
    \/ QueryJoinDict
    \/ QueryJoinKw
    \/ Vehicles
    \/ Geopatterns
    \/ Predictions
    \/ Bulletins
    \/ Continue

SpecCall == InitCall /\ [][NextCall]_vars

-----------------------------------------------------------------------------
(* Properties of query building and of the calls, checked under SpecCall *)

\* the name=value pairs of a request target: what follows "?", split at "&"
Pairs(u) ==
    LET parts == Split(SubSeq(u, 3, Len(u)), "&")
    IN  {parts[i] : i \in 1..Len(parts)} \ {<<>>}

\* the value of parameter k of the last call
Param(k) == call.params[CHOOSE i \in 1..Len(call.params) : call.params[i][1] = k][2]

\* a caller supplies a parameter by passing a value that is not empty
Supplied(v) == Truthy(v)

\* C7: the target endpoint() returns is the endpoint's base address, "?", and
\* exactly these pairs: key=<the instance's key>, the instance's tmres and
\* localestring, and name=value for each call parameter whose value is not
\* None.
C7_EndpointPairsExact ==
    call.op = "endpoint"
        => /\ SubSeq(url, 1, 2) = <<ENDPOINTS[call.endpt], "?">>
           /\ Pairs(url) =
                {<<"key", "=", api.key>>}
                    \cup {<<api.args[i][1], "=">> \o Format(api.args[i][2]) :
                            i \in 1..Len(api.args)}
                    \cup {<<call.params[i][1], "=">> \o Format(call.params[i][2]) :
                            i \in {j \in 1..Len(call.params) : call.params[j][2].t # "none"}}

\* the parameters of a call that may hold several IDs
ListParams(op) ==
    CASE op = "vehicles"    -> {"vid", "rt"}
      [] op = "predictions" -> {"stpid", "rt", "vid"}
      [] op = "geopatterns" -> {"pid"}
      [] op = "bulletins"   -> {"stpid", "rt"}
      [] OTHER              -> {call.params[i][1] : i \in 1..Len(call.params)}

\* C8: in every request target built by endpoint, vehicles (vid, rt),
\* predictions (stpid, rt, vid), geopatterns (pid) or bulletins (stpid, rt),
\* a list-like parameter appears as its elements joined by commas, in order,
\* and a text parameter appears unchanged.
C8_ListlikeCommaJoined ==
    (call.op \in {"endpoint", "vehicles", "predictions", "geopatterns", "bulletins"}
     /\ url # <<>>)
        => \A i \in 1..Len(call.params) :
              LET k == call.params[i][1]
                  v == call.params[i][2]
              IN  k \in ListParams(call.op) =>
                    /\ listlike(v) =>
                          (<<k, "=">> \o Join(<<",">>, [j \in 1..Len(v.xs) |-> Str(v.xs[j])]))
                              \in Pairs(url)
                    /\ (v.t = "str" /\ v.s # <<>>) => (<<k, "=">> \o v.s) \in Pairs(url)

\* C9: vehicles(vid, rt) raises ValueError and issues no request when vid and
\* rt are both supplied or both missing, and issues exactly one request when
\* exactly one of them is supplied.
C9_VehiclesArgumentCheck ==
    call.op = "vehicles"
        => IF Supplied(Param("vid")) = Supplied(Param("rt"))
           THEN outcome.kind = "raise" /\ outcome.exc = "ValueError" /\ nreq = 0
           ELSE nreq = 1 /\ url # <<>> /\ outcome.exc # "ValueError"

C9_Witness ==
    /\ call.op = "vehicles"
    /\ Supplied(Param("vid")) /\ ~Supplied(Param("rt"))
    /\ nreq = 1 /\ outcome.kind = "return"

\* C10: geopatterns(rt, pid) raises ValueError and issues no request when rt
\* and pid are both supplied and when neither is.
C10_GeopatternsArgumentCheck ==
    (call.op = "geopatterns" /\ Supplied(Param("rt")) = Supplied(Param("pid")))
        => (outcome.kind = "raise" /\ outcome.exc = "ValueError" /\ nreq = 0)

-----------------------------------------------------------------------------
(* src/pghbustime/datatypes.py.  The values a parsed response holds: a     *)
(* record is a dict of its fields, an element without text is None, and    *)
(* the value under a container key is the bare record when one element     *)
(* has that name and the list of the records when several have.            *)

PyBool(b)  == [t |-> "bool",  s |-> <<>>, n |-> IF b THEN 1 ELSE 0, xs |-> <<>>]
PyFloat(n) == [t |-> "float", s |-> <<>>, n |-> n, xs |-> <<>>]
PyDict(fs) == [t |-> "dict",  s |-> <<>>, n |-> 0, xs |-> fs]

\* a field that holds a sub-record instead of text
SubRecord(k, fs) == [key |-> k, text |-> <<>>, sub |-> fs]

TextValue(text) == IF text = <<>> THEN PyNone ELSE PyStr(text)

\* k in d, d[k] and d.get(k) on a record d
HasField(d, k) == \E i \in 1..Len(d.xs) : d.xs[i].key = k
Item(d, k) ==
    LET f == d.xs[CHOOSE i \in 1..Len(d.xs) :
                    d.xs[i].key = k /\ \A j \in 1..(i - 1) : d.xs[j].key # k]
    IN  IF "sub" \in DOMAIN f THEN PyDict(f.sub) ELSE TextValue(f.text)
Get(d, k) == IF HasField(d, k) THEN Item(d, k) ELSE PyNone

\* tree[k] as the caller of the API sees it
EntryValue(e) ==
    IF e.islist
    THEN PyList([i \in 1..Len(e.items) |-> PyDict(e.items[i])])
    ELSE PyDict(e.items[1])

\* what "for x in v" walks over: the elements of a list, the keys of a dict
Elements(v) ==
    IF v.t = "dict" THEN [i \in 1..Len(v.xs) |-> PyStr(<<v.xs[i].key>>)] ELSE v.xs

\* response[k] on what a BustimeAPI call gave: the call's exception if it
\* raised, TypeError on raw text and on None, KeyError without the key
Subscript(out, k) ==
    IF out.kind = "raise" THEN out
    ELSE IF out.rtype # "tree" THEN Raise("TypeError", <<>>)
    ELSE IF ~HasKey(out.tree, k) THEN Raise("KeyError", <<k>>)
    ELSE Return("value", <<EntryValue(Lookup(out.tree, k))>>, <<>>)

-----------------------------------------------------------------------------
(* Conversions of field text.  The texts the model uses are listed with    *)
(* their values; any other text is not a number (a timestamp).             *)

\* float(text), in units of 0.00001
FloatTable ==
    ("40.44886" :> 4044886) @@ ("40.448860" :> 4044886) @@ ("-80.16287" :> -8016287)
        @@ ("40.44410" :> 4044410) @@ ("-79.94895" :> -7994895)
\* int(text)
IntTable ==
    ("164" :> 164) @@ ("0164" :> 164) @@ ("90" :> 90) @@ ("1200" :> 1200) @@ ("35" :> 35)

\* the date and the time of day of "%Y%m%d %H:%M:%S"
DateTable ==
    ("20140925" :> [year |-> 2014, month |-> 9, day |-> 25])
        @@ ("20150115" :> [year |-> 2015, month |-> 1, day |-> 15])
TimeTable ==
    ("22:46:33" :> [hour |-> 22, minute |-> 46, second |-> 33])
        @@ ("22:51:00" :> [hour |-> 22, minute |-> 51, second |-> 0])
        @@ ("08:05:00" :> [hour |-> 8, minute |-> 5, second |-> 0])

\* the exception a conversion of value v raises, "" if it raises none
ConvError(conv, v) ==
    CASE conv = "float" ->
            IF v.t # "str" THEN "TypeError"
            ELSE IF Len(v.s) = 1 /\ v.s[1] \in DOMAIN FloatTable THEN "" ELSE "ValueError"
      [] conv = "int" ->
            IF v.t # "str" THEN "TypeError"
            ELSE IF Len(v.s) = 1 /\ v.s[1] \in DOMAIN IntTable THEN "" ELSE "ValueError"
      [] conv = "strptime" ->
            IF v.t # "str" THEN "TypeError"
            ELSE IF /\ Len(v.s) = 3 /\ v.s[2] = " "
                    /\ v.s[1] \in DOMAIN DateTable /\ v.s[3] \in DOMAIN TimeTable
                 THEN "" ELSE "ValueError"
      [] OTHER -> ""

float(v) == PyFloat(FloatTable[v.s[1]])
int(v) == PyInt(IntTable[v.s[1]])
\* datetime.strptime(v, api.STRPTIME): a datetime without a zone
strptime(v) ==
    LET d  == DateTable[v.s[1]]
        tm == TimeTable[v.s[3]]
    IN  [year |-> d.year, month |-> d.month, day |-> d.day,
         hour |-> tm.hour, minute |-> tm.minute, second |-> tm.second]

\* timezone("US/Eastern").localize(dt): the same wall-clock time, in the
\* zone, four hours behind UTC from April to October and five from December
\* to February (the model has no date in March or November)
localize(dt) ==
    [year |-> dt.year, month |-> dt.month, day |-> dt.day,
     hour |-> dt.hour, minute |-> dt.minute, second |-> dt.second,
     tzinfo |-> "US/Eastern", utcoffset |-> IF dt.month \in 4..10 THEN -4 ELSE -5]

\* A constructor reads its fields one after the other; each step is a key
\* and the conversion applied to d[key].  The exception of the first step
\* that fails, "" if none fails.
StepError(d, step) ==
    IF ~HasField(d, step[1]) THEN "KeyError" ELSE ConvError(step[2], Item(d, step[1]))
FirstError(d, steps) ==
    IF d.t # "dict" THEN "TypeError"
    ELSE LET bad == {i \in 1..Len(steps) : StepError(d, steps[i]) # ""}
         IN  IF bad = {} THEN ""
             ELSE StepError(d, steps[CHOOSE i \in bad : \A j \in bad : i <= j])

-----------------------------------------------------------------------------
(* The entities.  Every object has an identity, oid; an attribute that a   *)
(* property sets on first use (_busobj, _stopobj) is NoObj until it is set. *)

\* Bus.__init__
Bus(a, oid, vid, timeupdated, lat, lng, heading, pid, intotrip, rt, destination, speed, delay) ==
    [class |-> "Bus", oid |-> oid, api |-> a, vid |-> vid,
     timeupdated |-> localize(timeupdated), location |-> <<lat, lng>>,
     heading |-> int(heading), patternid |-> pid, dist_in_trip |-> intotrip,
     route |-> rt, destination |-> destination, speed |-> speed, delayed |-> delay]

\* the fields Bus.fromapi and Bus.__init__ read, in the order they read them
BusSteps ==
    << <<"vid", "">>, <<"tmstmp", "strptime">>, <<"lat", "float">>, <<"lon", "float">>,
       <<"hdg", "">>, <<"pid", "">>, <<"pdist", "">>, <<"rt", "">>, <<"des", "">>,
       <<"spd", "">>, <<"hdg", "int">> >>

\* x or False
OrFalse(x) == IF Truthy(x) THEN x ELSE PyBool(FALSE)

\* Bus.fromapi(api, apiresponse)
Bus_fromapi(a, bus, oid) ==
    IF FirstError(bus, BusSteps) # "" THEN Raise(FirstError(bus, BusSteps), <<>>)
    ELSE Return("Bus",
                << Bus(a, oid, Item(bus, "vid"), strptime(Item(bus, "tmstmp")),
                       float(Item(bus, "lat")), float(Item(bus, "lon")), Item(bus, "hdg"),
                       Item(bus, "pid"), Item(bus, "pdist"), Item(bus, "rt"),
                       Item(bus, "des"), Item(bus, "spd"), OrFalse(Get(bus, "dly"))) >>,
                <<>>)

\* OfflineBus.__init__(vid): no attribute but vid is set
OfflineBus(vid, oid) == [class |-> "OfflineBus", oid |-> oid, vid |-> vid]

\* Stop.__init__
Stop(a, oid, id, name) ==
    [class |-> "Stop", oid |-> oid, api |-> a, id |-> id, name |-> name]

\* Stop.get(api, stpid)
Stop_get(a, stpid, oid) == Stop(a, oid, stpid, PyStr(<<"(Unnamed)">>))

\* StopWithLocation.__init__
StopWithLocation(a, oid, id, name, location) ==
    [class |-> "StopWithLocation", oid |-> oid, api |-> a, id |-> id, name |-> name,
     location |-> location]

StopSteps == << <<"lat", "">>, <<"lon", "">>, <<"stpid", "">> >>

\* StopWithLocation.fromapi(api, apiresponse)
StopWithLocation_fromapi(a, apiresponse, oid) ==
    IF FirstError(apiresponse, StopSteps) # ""
    THEN Raise(FirstError(apiresponse, StopSteps), <<>>)
    ELSE Return("StopWithLocation",
                << StopWithLocation(a, oid, Item(apiresponse, "stpid"),
                                    Get(apiresponse, "stpnm"),
                                    <<Item(apiresponse, "lat"), Item(apiresponse, "lon")>>) >>,
                <<>>)

\* Prediction.pstop
pstop(id, name, feet_to) == [id |-> id, name |-> name, feet_to |-> feet_to]

\* Prediction.__init__
Prediction(a, oid, eta, is_arrival, delayed, generated, stop, rt, destination, bus, direction) ==
    [class |-> "Prediction", oid |-> oid, api |-> a,
     eta |-> localize(eta), is_arrival |-> is_arrival, delayed |-> delayed,
     generated |-> localize(generated), stop |-> stop, route |-> rt,
     destination |-> destination, direction |-> direction, vid |-> bus,
     busobj |-> NoObj, stopobj |-> NoObj]

PredictionSteps ==
    << <<"tmstmp", "strptime">>, <<"typ", "">>, <<"vid", "">>, <<"stpid", "">>,
       <<"stpnm", "">>, <<"dstp", "int">>, <<"rt", "">>, <<"rtdir", "">>, <<"des", "">>,
       <<"prdtm", "strptime">> >>

\* Prediction.fromapi(api, apiresponse)
Prediction_fromapi(a, apiresponse, oid) ==
    IF FirstError(apiresponse, PredictionSteps) # ""
    THEN Raise(FirstError(apiresponse, PredictionSteps), <<>>)
    ELSE Return("Prediction",
                << Prediction(a, oid, strptime(Item(apiresponse, "prdtm")),
                       PyBool(Item(apiresponse, "typ") = PyStr(<<"A">>)),
                       PyBool(Truthy(Get(apiresponse, "dly"))),
                       strptime(Item(apiresponse, "tmstmp")),
                       pstop(Item(apiresponse, "stpid"), Item(apiresponse, "stpnm"),
                             int(Item(apiresponse, "dstp"))),
                       Item(apiresponse, "rt"), Item(apiresponse, "des"),
                       Item(apiresponse, "vid"), Item(apiresponse, "rtdir")) >>,
                <<>>)

\* Route.__init__: stops is the dict of the stop lists fetched so far, each
\* a list object with its own identity
Route(a, oid, number, name, color) ==
    [class |-> "Route", oid |-> oid, api |-> a, number |-> number, name |-> name,
     color |-> color, stops |-> <<>>]

RouteSteps == << <<"rt", "">>, <<"rtnm", "">>, <<"rtclr", "">> >>

\* Route.fromapi(api, apiresponse)
Route_fromapi(a, apiresponse, oid) ==
    IF FirstError(apiresponse, RouteSteps) # ""
    THEN Raise(FirstError(apiresponse, RouteSteps), <<>>)
    ELSE Return("Route",
                << Route(a, oid, Item(apiresponse, "rt"), Item(apiresponse, "rtnm"),
                         Item(apiresponse, "rtclr")) >>,
                <<>>)

\* the index of the first element that raised, 0 if none did
FirstRaise(outs) ==
    LET bad == {i \in 1..Len(outs) : outs[i].kind = "raise"}
    IN  IF bad = {} THEN 0 ELSE CHOOSE i \in bad : \A j \in bad : i <= j

\* what a loop that builds one entity per element gave when it was run to
\* its end: the entities built before the first element that raised, and
\* that element's exception
Collect(outs) ==
    Bind(outs \o <<>>, LAMBDA os :
        IF FirstRaise(os) = 0
        THEN Return("entities", [i \in 1..Len(os) |-> os[i].tree[1]], <<>>)
        ELSE [Raise(os[FirstRaise(os)].exc, <<>>) EXCEPT
                !.tree = [i \in 1..(FirstRaise(os) - 1) |-> os[i].tree[1]]])

\* a list comprehension: the list, or the first exception and no list
Comprehend(outs) ==
    Bind(outs \o <<>>, LAMBDA os :
        IF FirstRaise(os) = 0
        THEN Return("entities", [i \in 1..Len(os) |-> os[i].tree[1]], <<>>)
        ELSE Raise(os[FirstRaise(os)].exc, <<>>))

\* a loop whose body is try: ... except: continue
CollectSkipping(outs) ==
    Bind(SelectSeq(outs, LAMBDA o : o.kind = "return"), LAMBDA good :
        Return("entities", [i \in 1..Len(good) |-> good[i].tree[1]], <<>>))

\* Bulletin.affected_service
affected_service(type, id, name) == [type |-> type, id |-> id, name |-> name]

\* Bulletin.__init__
Bulletin(oid, id, subject, text, priority, for_stops, for_routes) ==
    [class |-> "Bulletin", oid |-> oid, id |-> id, subject |-> subject, body |-> text,
     priority |-> priority, stops |-> for_stops, routes |-> for_routes]

\* k in svc: a key of a sub-record, a piece of a text
InService(k, svc) == IF svc.t = "dict" THEN HasField(svc, k) ELSE Contains(<<k>>, svc.s)

\* the body of the loop of Bulletin.fromapi for one element rec (resp in the source)
Bulletin_one(rec, oid) ==
    LET sentinel == PyStr(<<"n/a">>)
        id       == IF Truthy(sentinel) THEN sentinel ELSE Get(rec, "nm")
        priority == IF Truthy(sentinel) THEN sentinel ELSE Get(rec, "prty")
        dtl      == Get(rec, "dtl")
        brf      == Get(rec, "brf")
        svc      == Get(rec, "srvc")
        has_stop == Truthy(svc) /\ (InService("stpid", svc) \/ InService("stpnm", svc))
        has_rt   == Truthy(svc) /\ (InService("rt", svc) \/ InService("rtdir", svc))
    IN  IF rec.t # "dict" THEN Raise("AttributeError", <<>>)
        ELSE IF dtl.t # "str" \/ brf.t # "str" THEN Raise("TypeError", <<>>)
        ELSE IF (has_stop \/ has_rt) /\ svc.t # "dict" THEN Raise("AttributeError", <<>>)
        ELSE Return("Bulletin",
                    << Bulletin(oid, id, Get(rec, "sbj"),
                                PyStr(dtl.s \o <<"\n">> \o brf.s), priority,
                                IF has_stop
                                THEN <<affected_service("stop", Get(svc, "stpid"),
                                                        Get(svc, "stpnm"))>>
                                ELSE <<>>,
                                IF has_rt
                                THEN <<affected_service("route", Get(svc, "rt"),
                                                        Get(svc, "rtdir"))>>
                                ELSE <<>>) >>,
                    <<>>)

\* Bulletin.fromapi(apiresponse), a generator, run to its end; apiresponse
\* is what BustimeAPI.bulletins returned
Bulletin_fromapi(apiresponse, oid) ==
    Bind(Subscript(apiresponse, "sb"), LAMBDA sb :
        IF sb.kind = "raise" THEN sb
        ELSE Collect([i \in 1..Len(Elements(sb.tree[1])) |->
                        Bulletin_one(Elements(sb.tree[1])[i], oid + i - 1)]))

-----------------------------------------------------------------------------
(* The calls of BustimeAPI the entities use besides vehicles and           *)
(* predictions, and what the server answers.                               *)

\* routes()
routes(a, d, r, nt) == Request(a, "ROUTES", <<>>, d, r, nt)

\* stops(rt, direction)
stops(a, rt, direction, d, r, nt) ==
    Request(a, "STOPS", << <<"rt", rt>>, <<"dir", direction>> >>, d, r, nt)

\* the vehicle record of src/tests.py, and a delayed vehicle seen in winter
Vehicle5666 ==
    Child("vehicle",
          << Field("vid", <<"5666">>), Field("tmstmp", <<"20140925", " ", "22:46:33">>),
             Field("lat", <<"40.44886">>), Field("lon", <<"-80.16287">>),
             Field("hdg", <<"164">>), Field("pid", <<"2250">>), Field("rt", <<"28X">>),
             Field("des", <<"Oakland">>), Field("pdist", <<"49113">>),
             Field("spd", <<"16">>), Field("zone", <<>>) >>)
Vehicle5667 ==
    Child("vehicle",
          << Field("vid", <<"5667">>), Field("tmstmp", <<"20150115", " ", "08:05:00">>),
             Field("lat", <<"40.448860">>), Field("lon", <<"-80.16287">>),
             Field("hdg", <<"0164">>), Field("pid", <<"2251">>), Field("rt", <<"28X">>),
             Field("des", <<"Airport">>), Field("pdist", <<"120">>),
             Field("spd", <<"35">>), Field("dly", <<"true">>) >>)

Prediction5666 ==
    Child("prd",
          << Field("tmstmp", <<"20140925", " ", "22:46:33">>), Field("typ", <<"A">>),
             Field("stpid", <<"4123">>), Field("stpnm", Words(<<"Forbes", "at", "Murray">>)),
             Field("vid", <<"5666">>), Field("dstp", <<"1200">>), Field("rt", <<"28X">>),
             Field("rtdir", <<"INBOUND">>), Field("des", <<"Oakland">>),
             Field("prdtm", <<"20140925", " ", "22:51:00">>) >>)
Prediction5667 ==
    Child("prd",
          << Field("tmstmp", <<"20150115", " ", "08:05:00">>), Field("typ", <<"D">>),
             Field("stpid", <<"4123">>), Field("stpnm", Words(<<"Forbes", "at", "Murray">>)),
             Field("vid", <<"5667">>), Field("dstp", <<"90">>), Field("rt", <<"28X">>),
             Field("rtdir", <<"INBOUND">>), Field("des", <<"Airport">>),
             Field("prdtm", <<"20150115", " ", "08:05:00">>), Field("dly", <<"true">>) >>)

Stop4123 ==
    Child("stop",
          << Field("stpid", <<"4123">>), Field("stpnm", Words(<<"Forbes", "at", "Murray">>)),
             Field("lat", <<"40.44410">>), Field("lon", <<"-79.94895">>) >>)
Stop1605 ==
    Child("stop",
          << Field("stpid", <<"1605">>), Field("stpnm", Words(<<"Fifth", "at", "Wood">>)),
             Field("lat", <<"40.44886">>), Field("lon", <<"-80.16287">>) >>)
\* a stop the server knows no name of
Stop7117 ==
    Child("stop",
          << Field("stpid", <<"7117">>), Field("lat", <<"40.44886">>),
             Field("lon", <<"-79.94895">>) >>)

Route28XColor ==
    Child("route", << Field("rt", <<"28X">>), Field("rtnm", Words(<<"AIRPORT", "FLYER">>)),
                      Field("rtclr", <<"#9900ff">>) >>)
Route13Color ==
    Child("route", << Field("rt", <<"13">>), Field("rtnm", <<"BELLEVUE">>),
                      Field("rtclr", <<"#cc3300">>) >>)

\* the records of each container, in the order the server lists them
RecordPool(container) ==
    CASE container = "vehicle" -> <<Vehicle5666, Vehicle5667>>
      [] container = "prd"     -> <<Prediction5666, Prediction5667>>
      [] container = "stop"    -> <<Stop4123, Stop1605, Stop7117>>
      [] container = "route"   -> <<Route28XColor, Route13Color>>

\* a response with n records of a container
Records(container, n) ==
    [i \in 1..n |-> RecordPool(container)[((i - 1) % Len(RecordPool(container))) + 1]]
DataBody(container, n) == XmlBody(RESPONSE_TOKEN, Records(container, n))

Container(endpt) ==
    CASE endpt = "VEHICLES"   -> "vehicle"
      [] endpt = "PREDICTION" -> "prd"
      [] endpt = "STOPS"      -> "stop"
      [] endpt = "ROUTES"     -> "route"

\* nothing received
NoBody == PlainBody(<<>>)

\* What a request to an endpoint can meet: a server that cannot be reached,
\* data (one record or several), an error of the API (no data, or the
\* day's quota used up), or a page that is not the API's
Answers(endpt) ==
    { [net |-> "down", body |-> NoBody] }
        \cup { [net |-> "up", body |-> DataBody(Container(endpt), n)] : n \in 1..MaxChildren }
        \cup { [net |-> "up", body |-> XmlBody(RESPONSE_TOKEN, <<ErrNoData>>)],
               [net |-> "up", body |-> XmlBody(RESPONSE_TOKEN, <<ErrLimit>>)],
               [net |-> "up", body |-> PlainBody(<<"thisshouldbreak">>)] }

\* the requests a call issued, for the log of the operation
Sent(endpt, done) ==
    IF done.nreq = 0 THEN <<>> ELSE << [endpt |-> endpt, url |-> done.url] >>

\* What an operation on an entity did: its outcome, the requests it issued,
\* queryjoin's default argdict when it ended, the object it ran on (self,
\* or the registry) as it left it, and the number of objects it created
Effect(out, log, d, self, created) ==
    [outcome |-> out, sent |-> log, dflt |-> d, self |-> self, created |-> created]

-----------------------------------------------------------------------------
(* The relationships.  Each takes the object it runs on (self), the        *)
(* identity of the first object it creates, queryjoin's default argdict    *)
(* and the answer its request meets; a generator is run to its end.        *)

\* an attribute that has been set
IsSet(o) == o.class # "none"

\* pobj._busobj = self; pobj._stopobj = self; busobj.route = self
WithBus(out, self) ==
    IF out.kind = "raise" THEN out
    ELSE [out EXCEPT !.tree = << [out.tree[1] EXCEPT !.busobj = self] >>]
WithStop(out, self) ==
    IF out.kind = "raise" THEN out
    ELSE [out EXCEPT !.tree = << [out.tree[1] EXCEPT !.stopobj = self] >>]
WithRoute(out, self) ==
    IF out.kind = "raise" THEN out
    ELSE [out EXCEPT !.tree = << [out.tree[1] EXCEPT !.route = self] >>]

\* the records a loop over a container value walks when the code tells a
\* list from a bare record first
Normalized(v) == IF v.t = "list" THEN v.xs ELSE <<v>>

\* Bus.predictions
Bus_predictions(self, oid, d, ans) ==
    Bind(predictions(self.api, PyStr(<<>>), PyStr(<<>>), self.vid, PyStr(<<>>),
                     d, ans.body, ans.net), LAMBDA done :
    Bind(Subscript(done.outcome, "prd"), LAMBDA prd :
        IF prd.kind = "raise"
        THEN Effect(prd, Sent("PREDICTION", done), done.dflt, self, 0)
        ELSE Effect(Collect([i \in 1..Len(Elements(prd.tree[1])) |->
                        WithBus(Prediction_fromapi(self.api, Elements(prd.tree[1])[i],
                                                   oid + i - 1), self)]),
                    Sent("PREDICTION", done), done.dflt, self,
                    Len(Elements(prd.tree[1])))))

\* Bus.next_stop
Bus_next_stop(self, oid, d, ans) ==
    Bind(predictions(self.api, PyStr(<<>>), PyStr(<<>>), self.vid, PyStr(<<>>),
                     d, ans.body, ans.net), LAMBDA done :
    Bind(Subscript(done.outcome, "prd"), LAMBDA p :
        Effect(IF p.kind = "raise" THEN p
               \* p[0] on a record: it has no key 0
               ELSE IF p.tree[1].t = "dict" THEN Raise("KeyError", <<"0">>)
               ELSE WithBus(Prediction_fromapi(self.api, p.tree[1].xs[1], oid), self),
               Sent("PREDICTION", done), done.dflt, self, 1)))

\* Stop.predictions(route)
Stop_predictions(self, rt, oid, d, ans) ==
    Bind(predictions(self.api, self.id, rt, PyStr(<<>>), PyStr(<<>>),
                     d, ans.body, ans.net), LAMBDA done :
    Bind(Subscript(done.outcome, "prd"), LAMBDA apiresponse :
        IF apiresponse.kind = "raise"
        THEN Effect(apiresponse, Sent("PREDICTION", done), done.dflt, self, 0)
        ELSE Effect(IF apiresponse.tree[1].t = "list"
                    THEN CollectSkipping([i \in 1..Len(apiresponse.tree[1].xs) |->
                            WithStop(Prediction_fromapi(self.api, apiresponse.tree[1].xs[i],
                                                        oid + i - 1), self)])
                    ELSE Collect(<< WithStop(Prediction_fromapi(self.api,
                                                apiresponse.tree[1], oid), self) >>),
                    Sent("PREDICTION", done), done.dflt, self,
                    Len(Normalized(apiresponse.tree[1])))))

\* Route.busses
Route_busses(self, oid, d, ans) ==
    Bind(vehicles(self.api, PyNone, self.number, d, ans.body, ans.net), LAMBDA done :
    Bind(Subscript(done.outcome, "vehicle"), LAMBDA apiresp :
        IF apiresp.kind = "raise"
        THEN Effect(apiresp, Sent("VEHICLES", done), done.dflt, self, 0)
        ELSE Effect(Collect([i \in 1..Len(Normalized(apiresp.tree[1])) |->
                        WithRoute(Bus_fromapi(self.api, Normalized(apiresp.tree[1])[i],
                                              oid + i - 1), self)]),
                    Sent("VEHICLES", done), done.dflt, self,
                    Len(Normalized(apiresp.tree[1])))))

\* self.stops[key], a dict kept as a sequence of <<key, list>> pairs
HasStops(self, key) == \E i \in 1..Len(self.stops) : self.stops[i][1] = key
StopsAt(self, key) ==
    self.stops[CHOOSE i \in 1..Len(self.stops) : self.stops[i][1] = key][2]

\* the list a comprehension built: an object of its own
ListObject(oid, items) == [class |-> "list", oid |-> oid, items |-> items]

\* the except branch of the directional stop lists: the stops of the
\* direction fetched, built and kept in self.stops
FetchStops(self, key, direction, oid, d, ans) ==
    Bind(stops(self.api, self.number, PyStr(<<direction>>), d, ans.body, ans.net),
         LAMBDA done :
    Bind(Subscript(done.outcome, "stop"), LAMBDA stop :
    Bind(IF stop.kind = "raise" THEN stop
         ELSE Comprehend([i \in 1..Len(Elements(stop.tree[1])) |->
                StopWithLocation_fromapi(self.api, Elements(stop.tree[1])[i], oid + i - 1)]),
         LAMBDA built :
        IF built.kind = "raise"
        THEN Effect(built, Sent("STOPS", done), done.dflt, self, 0)
        ELSE Effect(Return("list", <<ListObject(oid + Len(built.tree), built.tree)>>, <<>>),
                    Sent("STOPS", done), done.dflt,
                    [self EXCEPT !.stops =
                        DictSet(self.stops, key,
                                ListObject(oid + Len(built.tree), built.tree))],
                    Len(built.tree) + 1))))

\* a directional stop list that is fetched on every access
directional_stops_nocache(self, key, direction, oid, d, ans) ==
    FetchStops(self, key, direction, oid, d, ans)

\* the body shared by Route.inbound_stops and Route.outbound_stops:
\* self.stops[key] if it is there, else the stops fetched
directional_stops(self, key, direction, oid, d, ans) ==
    IF HasStops(self, key)
    THEN Effect(Return("list", <<StopsAt(self, key)>>, <<>>), <<>>, d, self, 0)
    ELSE FetchStops(self, key, direction, oid, d, ans)

\* Route.inbound_stops, Route.outbound_stops
inbound_stops(self, oid, d, ans) ==
    directional_stops(self, "inbound", "INBOUND", oid, d, ans)
outbound_stops(self, oid, d, ans) ==
    directional_stops(self, "outbound", "OUTBOUND", oid, d, ans)

\* the loop of find_stop over the stops it searches
Found(searched, query) ==
    IF \E i \in 1..Len(searched) : searched[i].name.t # "str"
    \* None has no lower()
    THEN Raise("AttributeError", <<>>)
    ELSE Return("entities",
                SelectSeq(searched, LAMBDA st :
                    \/ Contains(Lower(Str(query)), Lower(st.name.s))
                    \/ Contains(Lower(Str(query)), Lower(Str(st.id)))),
                <<>>)

\* Route.find_stop(query, direction)
find_stop(self, query, direction, oid, d, ansIn, ansOut) ==
    IF Lower(direction) = <<"inbound">>
    THEN Bind(inbound_stops(self, oid, d, ansIn), LAMBDA inb :
            IF inb.outcome.kind = "raise" THEN inb
            ELSE [inb EXCEPT !.outcome = Found(inb.outcome.tree[1].items, query)])
    ELSE IF Lower(direction) = <<"outbound">>
    THEN Bind(outbound_stops(self, oid, d, ansOut), LAMBDA outb :
            IF outb.outcome.kind = "raise" THEN outb
            ELSE [outb EXCEPT !.outcome = Found(outb.outcome.tree[1].items, query)])
    ELSE Bind(inbound_stops(self, oid, d, ansIn), LAMBDA inb :
            IF inb.outcome.kind = "raise" THEN inb
            ELSE Bind(outbound_stops(inb.self, oid + inb.created, inb.dflt, ansOut),
                      LAMBDA outb :
                    Effect(IF outb.outcome.kind = "raise" THEN outb.outcome
                           ELSE Found(inb.outcome.tree[1].items
                                        \o outb.outcome.tree[1].items, query),
                           inb.sent \o outb.sent, outb.dflt, outb.self,
                           inb.created + outb.created)))

RECURSIVE IndexRoutes(_, _)
\* the loop of update_list: allroutes[str(rtobject.number)] = rtobject
IndexRoutes(rtobjects, allroutes) ==
    IF rtobjects = <<>> THEN allroutes
    ELSE IndexRoutes(Tail(rtobjects),
                     DictSet(allroutes, Str(rtobjects[1].number), rtobjects[1]))

\* Route.update_list(api, rtdicts)
update_list(a, rtdicts, oid) ==
    Bind(Comprehend([i \in 1..Len(Elements(rtdicts)) |->
                        Route_fromapi(a, Elements(rtdicts)[i], oid + i - 1)]),
         LAMBDA built :
            IF built.kind = "raise" THEN built
            ELSE Return("dict", IndexRoutes(built.tree, <<>>), <<>>))

\* all_routes[str(rt)]
RouteAt(registry, rt) ==
    IF \E i \in 1..Len(registry) : registry[i][1] = Str(rt)
    THEN Return("Route",
                << registry[CHOOSE i \in 1..Len(registry) : registry[i][1] = Str(rt)][2] >>,
                <<>>)
    ELSE Raise("KeyError", Str(rt))

\* a fetch of the route list that, when it fails, leaves a marker of the
\* failure in the registry
FetchRoutes_keepfailure(a, rt, registry, oid, d, ans) ==
    Bind(routes(a, d, ans.body, ans.net), LAMBDA done :
    Bind(Subscript(done.outcome, "route"), LAMBDA rts :
    Bind(IF rts.kind = "raise" THEN rts ELSE update_list(a, rts.tree[1], oid),
         LAMBDA updated :
            IF updated.kind = "raise"
            THEN Effect(updated, Sent("ROUTES", done), done.dflt,
                        << <<(<<"(failed)">>), NoObj>> >>, 0)
            ELSE Effect(RouteAt(updated.tree, rt), Sent("ROUTES", done), done.dflt,
                        updated.tree, Len(Elements(rts.tree[1]))))))

\* the fetch of Route.get and the lookup after it:
\* all_routes = update_list(api, api.routes()['route'])
FetchRoutes(a, rt, registry, oid, d, ans) ==
    Bind(routes(a, d, ans.body, ans.net), LAMBDA done :
    Bind(Subscript(done.outcome, "route"), LAMBDA rts :
    Bind(IF rts.kind = "raise" THEN rts ELSE update_list(a, rts.tree[1], oid),
         LAMBDA updated :
            IF updated.kind = "raise"
            THEN Effect(updated, Sent("ROUTES", done), done.dflt, registry, 0)
            ELSE Effect(RouteAt(updated.tree, rt), Sent("ROUTES", done), done.dflt,
                        updated.tree, Len(Elements(rts.tree[1]))))))

\* a Route.get that fetches the route list on every lookup
Route_get_alwaysfetch(a, rt, registry, oid, d, ans) ==
    FetchRoutes(a, rt, registry, oid, d, ans)

\* Route.get(api, rt); registry is Route.all_routes when the lookup starts
Route_get(a, rt, registry, oid, d, ans) ==
    IF registry = <<>>
    THEN FetchRoutes(a, rt, registry, oid, d, ans)
    ELSE Effect(RouteAt(registry, rt), <<>>, d, registry, 0)

\* the try block of Prediction.bus:
\* Bus.fromapi(self.api, self.api.vehicles(vid=self._vid)['vehicle'])
ResolveBus(self, oid, d, ans) ==
    Bind(vehicles(self.api, self.vid, PyNone, d, ans.body, ans.net), LAMBDA done :
    Bind(Subscript(done.outcome, "vehicle"), LAMBDA v :
        Effect(IF v.kind = "raise" THEN v ELSE Bus_fromapi(self.api, v.tree[1], oid),
               Sent("VEHICLES", done), done.dflt, self, 0)))

\* self._busobj = <the Bus the try block gave>
KeepBus(resolved) ==
    [resolved EXCEPT !.self.busobj = resolved.outcome.tree[1], !.created = 1]

\* except BustimeError: self._busobj = OfflineBus(self._vid)
KeepOfflineBus(resolved, oid) ==
    [resolved EXCEPT !.outcome = Return("Bus", <<OfflineBus(resolved.self.vid, oid)>>, <<>>),
                     !.self.busobj = OfflineBus(resolved.self.vid, oid),
                     !.created = 1]

\* a Prediction.bus that resolves on every access
Prediction_bus_nocache(self, oid, d, ans) ==
    Bind(ResolveBus(self, oid, d, ans), LAMBDA resolved :
        IF resolved.outcome.kind = "return" THEN KeepBus(resolved)
        ELSE IF IsBustimeError(resolved.outcome.exc) THEN KeepOfflineBus(resolved, oid)
        ELSE resolved)

\* a Prediction.bus without its except clause
Prediction_bus_nodegrade(self, oid, d, ans) ==
    IF IsSet(self.busobj)
    THEN Effect(Return("Bus", <<self.busobj>>, <<>>), <<>>, d, self, 0)
    ELSE Bind(ResolveBus(self, oid, d, ans), LAMBDA resolved :
            IF resolved.outcome.kind = "return" THEN KeepBus(resolved) ELSE resolved)

\* Prediction.bus: the Bus is kept, a BustimeError makes an OfflineBus that
\* is kept, any other exception goes to the caller
Prediction_bus(self, oid, d, ans) ==
    IF IsSet(self.busobj)
    THEN Effect(Return("Bus", <<self.busobj>>, <<>>), <<>>, d, self, 0)
    ELSE Bind(ResolveBus(self, oid, d, ans), LAMBDA resolved :
            IF resolved.outcome.kind = "return" THEN KeepBus(resolved)
            ELSE IF IsBustimeError(resolved.outcome.exc) THEN KeepOfflineBus(resolved, oid)
            ELSE resolved)

\* a Prediction.stop that builds a Stop on every access
Prediction_stop_nocache(self, oid, d) ==
    Effect(Return("Stop", <<Stop(self.api, oid, self.stop.id, self.stop.name)>>, <<>>),
           <<>>, d,
           [self EXCEPT !.stopobj = Stop(self.api, oid, self.stop.id, self.stop.name)], 1)

\* Prediction.stop
Prediction_stop(self, oid, d) ==
    IF IsSet(self.stopobj)
    THEN Effect(Return("Stop", <<self.stopobj>>, <<>>), <<>>, d, self, 0)
    ELSE Effect(Return("Stop", <<Stop(self.api, oid, self.stop.id, self.stop.name)>>, <<>>),
                <<>>, d,
                [self EXCEPT !.stopobj = Stop(self.api, oid, self.stop.id, self.stop.name)],
                1)

-----------------------------------------------------------------------------
(* A caller working with entities: with a Bus, a Stop and a Route, or      *)
(* with a Prediction.  Each request it causes meets its own answer.        *)

\* the largest identity an object gets: room for the objects the caller
\* holds, the routes of the registry and both stop lists of a Route
MaxObjects == 3 * MaxChildren + 7
\* the largest number of route-list requests of a session
MaxFetches == 3

\* Bus.fromapi(api, <the record of src/tests.py>), Stop.get(api, 4123)
HeldBus(a) == Bus_fromapi(a, PyDict(Vehicle5666.fields), 1).tree[1]
HeldStop(a) == Stop_get(a, PyInt(4123), 2)

Up(body) == [net |-> "up", body |-> body]

\* The Prediction of the caller: built from a record by Prediction.fromapi,
\* or, where the API answers in JSON, taken from Bus.predictions or from
\* Stop.predictions
HeldPredictions(a) ==
    { Prediction_fromapi(a, PyDict(rec.fields), 3).tree[1] :
        rec \in {Prediction5666, Prediction5667} }
        \cup IF a.format # "json" THEN {}
             ELSE { Bus_predictions(HeldBus(a), 3, <<>>,
                                    Up(DataBody("prd", 2))).outcome.tree[1],
                    Stop_predictions(HeldStop(a), PyStr(<<>>), 3, <<>>,
                                     Up(DataBody("prd", 1))).outcome.tree[1] }

\* Route.fromapi(api, <a route record>)
HeldRoute(a) == Route_fromapi(a, PyDict(Route28XColor.fields), 4).tree[1]

\* one key, each format
EntityApis == { BustimeAPI("BOGUSAPIKEY", f) : f \in Formats }

\* nothing has been asked of the library yet
Fresh ==
    /\ nextid = 5
    /\ all_routes = <<>>
    /\ routesFetched = 0
    /\ resp = NoBody
    /\ net = "up"
    /\ call = NoCall
    /\ outcome = NoOutcome
    /\ nreq = 0
    /\ url = <<>>
    /\ sent = <<>>
    /\ pc = "ready"

\* the caller holds a Route (and can build a Bus and a Stop)
InitEntity ==
    /\ api \in EntityApis
    /\ heldbus = NoObj
    /\ pred = NoObj
    /\ route = HeldRoute(api)
    /\ qjDefault = <<>>
    /\ callers = <<>>
    /\ Fresh

\* the caller holds a Prediction
InitPrediction ==
    /\ api \in EntityApis
    /\ heldbus = NoObj
    /\ pred \in HeldPredictions(api)
    /\ route = NoObj
    \* a Prediction taken from the API has cost a request
    /\ qjDefault = IF IsSet(pred.busobj) \/ IsSet(pred.stopobj)
                   THEN endpoint_default(api, <<>>) ELSE <<>>
    /\ callers = <<>>
    /\ Fresh

\* the effect of an operation on an entity on the session; ans is the
\* answer its last request met
Apply(op, params, eff, ans) ==
    /\ pc = "ready"
    /\ nextid + eff.created <= MaxObjects
    /\ call' = [op |-> op, endpt |-> "", params |-> params]
    /\ outcome' = eff.outcome
    /\ nreq' = Len(eff.sent)
    /\ sent' = eff.sent
    /\ url' = IF eff.sent = <<>> THEN <<>> ELSE eff.sent[Len(eff.sent)].url
    /\ qjDefault' = eff.dflt
    /\ nextid' = nextid + eff.created
    /\ resp' = IF eff.sent = <<>> THEN resp ELSE ans.body
    /\ net' = IF eff.sent = <<>> THEN net ELSE ans.net
    /\ pc' = "called"
    /\ UNCHANGED <<api, callers>>

\* vehicle records handed to Bus.fromapi: not delayed, delayed, and with an
\* empty dly element
VehicleRecords ==
    { Vehicle5666, Vehicle5667,
      Child("vehicle", Vehicle5666.fields \o <<Field("dly", <<>>)>>) }

BusFromApi ==
    \E rec \in VehicleRecords :
      \E eff \in { Effect(Bus_fromapi(api, PyDict(rec.fields), nextid), <<>>, qjDefault,
                          NoObj, 1) } :
        /\ Apply("Bus.fromapi", << <<"apiresponse", PyDict(rec.fields)>> >>, eff, Up(resp))
        /\ UNCHANGED <<heldbus, pred, route, all_routes, routesFetched>>

\* stop records handed to StopWithLocation.fromapi: two with a name and one
\* the server knows no name of
StopFromApi ==
    \E rec \in {Stop4123, Stop1605, Stop7117} :
      \E eff \in { Effect(StopWithLocation_fromapi(api, PyDict(rec.fields), nextid), <<>>,
                          qjDefault, NoObj, 1) } :
        /\ Apply("StopWithLocation.fromapi", << <<"apiresponse", PyDict(rec.fields)>> >>,
                 eff, Up(resp))
        /\ UNCHANGED <<heldbus, pred, route, all_routes, routesFetched>>

\* a service bulletin with the optional fields S
BulletinKeys == {"nm", "prty", "dtl", "brf", "srvc"}
BulletinRecord(S) ==
    Child("sb",
          SelectSeq(<< Field("nm", <<"4711">>), Field("sbj", <<"Detour">>),
                       Field("dtl", Words(<<"Stop", "closed", "until", "Friday">>)),
                       Field("brf", Words(<<"Stop", "closed">>)),
                       Field("prty", <<"High">>),
                       SubRecord("srvc", << Field("rt", <<"28X">>) >>) >>,
                    LAMBDA f : f.key = "sbj" \/ f.key \in S))
\* what BustimeAPI.bulletins returns: one bulletin or several
BulletinResponses ==
    { XmlBody(RESPONSE_TOKEN,
              <<BulletinRecord(S)>> \o [i \in 1..(n - 1) |-> BulletinRecord(BulletinKeys)]) :
        S \in SUBSET BulletinKeys, n \in 1..MaxChildren }

BulletinFromApi ==
    \E b \in BulletinResponses :
      \E eff \in { Effect(Bulletin_fromapi(Return("tree", XmlToDict(b), <<>>), nextid),
                          <<>>, qjDefault, NoObj, Len(b.children)) } :
        /\ Apply("Bulletin.fromapi", << <<"apiresponse", b>> >>, eff, Up(resp))
        /\ UNCHANGED <<heldbus, pred, route, all_routes, routesFetched>>

BusPredictions ==
    \E ans \in Answers("PREDICTION"), self \in {HeldBus(api)} :
      \E eff \in { Bus_predictions(self, nextid, qjDefault, ans) } :
        /\ Apply("Bus.predictions", <<>>, eff, ans)
        /\ UNCHANGED <<heldbus, pred, route, all_routes, routesFetched>>

BusNextStop ==
    \E ans \in Answers("PREDICTION"), self \in {HeldBus(api)} :
      \E eff \in { Bus_next_stop(self, nextid, qjDefault, ans) } :
        /\ Apply("Bus.next_stop", <<>>, eff, ans)
        /\ UNCHANGED <<heldbus, pred, route, all_routes, routesFetched>>

StopPredictions ==
    \E rt \in {PyStr(<<>>), PyStr(<<"28X">>)}, ans \in Answers("PREDICTION") :
      \E eff \in { Stop_predictions(HeldStop(api), rt, nextid, qjDefault, ans) } :
        /\ Apply("Stop.predictions", << <<"route", rt>> >>, eff, ans)
        /\ UNCHANGED <<heldbus, pred, route, all_routes, routesFetched>>

RouteBusses ==
    \E ans \in Answers("VEHICLES") :
      \E eff \in { Route_busses(route, nextid, qjDefault, ans) } :
        /\ Apply("Route.busses", <<>>, eff, ans)
        /\ UNCHANGED <<heldbus, pred, route, all_routes, routesFetched>>

\* An answer is met only by a request: an operation that finds what it looks
\* for in a cache meets none
Met(needed, endpt) == IF needed THEN Answers(endpt) ELSE {Up(NoBody)}

InboundStops ==
    \E ans \in Met(~HasStops(route, "inbound"), "STOPS") :
      \E eff \in { inbound_stops(route, nextid, qjDefault, ans) } :
        /\ Apply("Route.inbound_stops", <<>>, eff, ans)
        /\ route' = eff.self
        /\ UNCHANGED <<heldbus, pred, all_routes, routesFetched>>

OutboundStops ==
    \E ans \in Met(~HasStops(route, "outbound"), "STOPS") :
      \E eff \in { outbound_stops(route, nextid, qjDefault, ans) } :
        /\ Apply("Route.outbound_stops", <<>>, eff, ans)
        /\ route' = eff.self
        /\ UNCHANGED <<heldbus, pred, all_routes, routesFetched>>

\* what callers search for, and the directions they name
Queries == { PyStr(<<"forbes">>), PyInt(1605) }
Directions == { <<>>, <<"INBOUND">>, <<"outbound">> }

FindStop ==
    \E query \in Queries, direction \in Directions :
      \E ansIn \in Met(Lower(direction) # <<"outbound">> /\ ~HasStops(route, "inbound"),
                       "STOPS"),
         ansOut \in Met(Lower(direction) # <<"inbound">> /\ ~HasStops(route, "outbound"),
                        "STOPS") :
      \E eff \in { find_stop(route, query, direction, nextid, qjDefault, ansIn, ansOut) } :
            /\ Apply("Route.find_stop",
                     << <<"query", query>>, <<"direction", PyStr(direction)>> >>, eff,
                     IF eff.sent # <<>>
                        /\ Contains(<<"dir", "=", "OUTBOUND">>, eff.sent[Len(eff.sent)].url)
                     THEN ansOut ELSE ansIn)
            /\ route' = eff.self
            /\ UNCHANGED <<heldbus, pred, all_routes, routesFetched>>

\* the designators callers look up: two the server lists, one it does not
Designators == { PyStr(<<"28X">>), PyInt(13), PyStr(<<"P1">>) }

RouteGet ==
    \E rt \in Designators, ans \in Met(all_routes = <<>>, "ROUTES") :
      \E eff \in { Route_get(api, rt, all_routes, nextid, qjDefault, ans) } :
            /\ routesFetched + Len(eff.sent) <= MaxFetches
            /\ Apply("Route.get", << <<"rt", rt>> >>, eff, ans)
            /\ all_routes' = eff.self
            /\ routesFetched' = routesFetched + Len(eff.sent)
            /\ UNCHANGED <<heldbus, pred, route>>

PredictionBus ==
    \E ans \in Met(~IsSet(pred.busobj), "VEHICLES") :
      \E eff \in { Prediction_bus(pred, nextid, qjDefault, ans) } :
        /\ Apply("Prediction.bus", <<>>, eff, ans)
        /\ pred' = eff.self
        /\ UNCHANGED <<heldbus, route, all_routes, routesFetched>>

PredictionStop ==
    \E eff \in { Prediction_stop(pred, nextid, qjDefault) } :
        /\ Apply("Prediction.stop", <<>>, eff, Up(resp))
        /\ pred' = eff.self
        /\ UNCHANGED <<heldbus, route, all_routes, routesFetched>>

\* the caller lets go of the result and is ready for its next operation
Proceed ==
    /\ pc = "called"
    /\ pc' = "ready"
    /\ call' = NoCall
    /\ outcome' = NoOutcome
    /\ nreq' = 0
    /\ url' = <<>>
    /\ sent' = <<>>
    /\ resp' = NoBody
    /\ net' = "up"
    /\ UNCHANGED <<api, qjDefault, nextid, heldbus, pred, route, all_routes, routesFetched, callers>>

\* one operation on fresh entities
NextBuild ==
    \/ BusFromApi
    \/ StopFromApi
    \/ BulletinFromApi
    \/ BusPredictions
    \/ BusNextStop
    \/ StopPredictions
    \/ RouteBusses
    \/ InboundStops
    \/ OutboundStops
    \/ RouteGet

SpecBuild == InitEntity /\ [][NextBuild]_vars

\* a session on the Prediction
NextLazy == PredictionBus \/ PredictionStop \/ Proceed

SpecLazy == InitPrediction /\ [][NextLazy]_vars

\* a session on one Route
NextRoute == InboundStops \/ OutboundStops \/ FindStop \/ Proceed

SpecRoute == InitEntity /\ [][NextRoute]_vars

\* a session of lookups in the registry
NextRegistry == RouteGet \/ Proceed

SpecRegistry == InitEntity /\ [][NextRegistry]_vars

-----------------------------------------------------------------------------
(* Two callers in Route.get at once.  Route.get takes no lock: each line   *)
(* of it is a step of its caller, and the steps of the two callers         *)
(* interleave freely.  A caller's record holds its position (pc), the      *)
(* designator it looks up (rt), what update_list built for it (built) and  *)
(* what Route.get gave it (result).                                        *)

Idle == [pc |-> "idle", rt |-> PyNone, built |-> NoOutcome, result |-> NoOutcome]

InitRace ==
    /\ api \in EntityApis
    /\ heldbus = NoObj
    /\ pred = NoObj
    /\ route = NoObj
    /\ qjDefault = <<>>
    /\ callers = <<Idle, Idle>>
    /\ Fresh

\* if not _class.all_routes: the caller enters Route.get and reads the
\* registry
Check(c) ==
    /\ callers[c].pc = "idle"
    /\ \E rt \in Designators :
         callers' = [callers EXCEPT ![c].rt = rt,
                                    ![c].pc = IF all_routes = <<>> THEN "fetch"
                                              ELSE "index"]
    /\ UNCHANGED <<api, resp, call, outcome, nreq, url, net, pc, qjDefault, sent, nextid,
                   heldbus, pred, route, all_routes, routesFetched>>

\* _class.update_list(api, api.routes()['route']): the request and the
\* Routes built from its answer, not yet assigned
Fetch(c) ==
    /\ callers[c].pc = "fetch"
    /\ \E ans \in Answers("ROUTES") :
        \E done \in { routes(api, qjDefault, ans.body, ans.net) } :
        \E rts \in { Subscript(done.outcome, "route") } :
        \E updated \in { IF rts.kind = "raise" THEN rts
                         ELSE update_list(api, rts.tree[1], nextid) } :
            /\ callers' = [callers EXCEPT
                              ![c].built = updated,
                              ![c].result = IF updated.kind = "raise" THEN updated
                                            ELSE NoOutcome,
                              ![c].pc = IF updated.kind = "raise" THEN "done" ELSE "store"]
            /\ nextid' = nextid + (IF updated.kind = "raise" THEN 0 ELSE Len(updated.tree))
            /\ routesFetched' = routesFetched + done.nreq
            /\ nreq' = nreq + done.nreq
            /\ sent' = sent \o Sent("ROUTES", done)
            /\ url' = done.url
            /\ qjDefault' = done.dflt
            /\ resp' = ans.body
            /\ net' = ans.net
    /\ UNCHANGED <<api, call, outcome, pc, heldbus, pred, route, all_routes>>

\* _class.all_routes = <what update_list built>
Store(c) ==
    /\ callers[c].pc = "store"
    /\ all_routes' = callers[c].built.tree
    /\ callers' = [callers EXCEPT ![c].pc = "index"]
    /\ UNCHANGED <<api, resp, call, outcome, nreq, url, net, pc, qjDefault, sent, nextid,
                   heldbus, pred, route, routesFetched>>

\* return _class.all_routes[str(rt)]
Index(c) ==
    /\ callers[c].pc = "index"
    /\ callers' = [callers EXCEPT ![c].result = RouteAt(all_routes, callers[c].rt),
                                  ![c].pc = "done"]
    /\ UNCHANGED <<api, resp, call, outcome, nreq, url, net, pc, qjDefault, sent, nextid,
                   heldbus, pred, route, all_routes, routesFetched>>

NextRace ==
    \/ \E c \in 1..Len(callers) : Check(c)
    \/ \E c \in 1..Len(callers) : Fetch(c)
    \/ \E c \in 1..Len(callers) : Store(c)
    \/ \E c \in 1..Len(callers) : Index(c)

SpecRace == InitRace /\ [][NextRace]_vars

-----------------------------------------------------------------------------
(* A caller working with one Bus: Bus.get and Bus.update                   *)

\* Bus.get(api, vid): the response of the first request is put aside, the
\* Bus is built from the response of a second one (the caller does not keep
\* the Bus in the session: its identity is free again afterwards)
Bus_get(a, vid, oid, d, ans1, ans2) ==
    Bind(vehicles(a, vid, PyNone, d, ans1.body, ans1.net), LAMBDA first :
    Bind(Subscript(first.outcome, "vehicle"), LAMBDA busses :
        IF busses.kind = "raise"
        THEN Effect(busses, Sent("VEHICLES", first), first.dflt, NoObj, 0)
        ELSE Bind(vehicles(a, vid, PyNone, first.dflt, ans2.body, ans2.net),
                  LAMBDA second :
             Bind(Subscript(second.outcome, "vehicle"), LAMBDA v :
                Effect(IF v.kind = "raise" THEN v ELSE Bus_fromapi(a, v.tree[1], oid),
                       Sent("VEHICLES", first) \o Sent("VEHICLES", second),
                       second.dflt, NoObj, 0)))))

\* a Bus.update that moves the fields of the fetched record into the Bus one
\* after the other
Bus_update_fieldwise(self, oid, d, ans) ==
    IF "api" \notin DOMAIN self
    THEN Effect(Raise("AttributeError", <<>>), <<>>, d, self, 0)
    ELSE
    Bind(vehicles(self.api, self.vid, PyNone, d, ans.body, ans.net), LAMBDA done :
    Bind(Subscript(done.outcome, "vehicle"), LAMBDA vehicle :
    Bind(IF vehicle.kind = "raise" THEN vehicle
         ELSE Bus_fromapi(self.api, vehicle.tree[1], oid), LAMBDA newbus :
        IF newbus.kind = "return"
        THEN Effect(Return("None", <<>>, <<>>), Sent("VEHICLES", done), done.dflt,
                    [newbus.tree[1] EXCEPT !.oid = self.oid, !.class = self.class], 0)
        ELSE IF vehicle.kind = "return" /\ vehicle.tree[1].t = "dict"
                /\ HasField(vehicle.tree[1], "vid") /\ HasField(vehicle.tree[1], "des")
        THEN Effect(newbus, Sent("VEHICLES", done), done.dflt,
                    [self EXCEPT !.vid = Item(vehicle.tree[1], "vid"),
                                 !.destination = Item(vehicle.tree[1], "des")], 0)
        ELSE Effect(newbus, Sent("VEHICLES", done), done.dflt, self, 0))))

\* Bus.update(): a new Bus is built from the record fetched for self.vid and
\* its attributes replace those of self (self.__dict__ = newbus.__dict__);
\* self stays the object it is.  An OfflineBus has no api attribute.
Bus_update(self, oid, d, ans) ==
    IF "api" \notin DOMAIN self
    THEN Effect(Raise("AttributeError", <<>>), <<>>, d, self, 0)
    ELSE
    Bind(vehicles(self.api, self.vid, PyNone, d, ans.body, ans.net), LAMBDA done :
    Bind(Subscript(done.outcome, "vehicle"), LAMBDA vehicle :
    Bind(IF vehicle.kind = "raise" THEN vehicle
         ELSE Bus_fromapi(self.api, vehicle.tree[1], oid), LAMBDA newbus :
        IF newbus.kind = "raise"
        THEN Effect(newbus, Sent("VEHICLES", done), done.dflt, self, 0)
        ELSE Effect(Return("None", <<>>, <<>>), Sent("VEHICLES", done), done.dflt,
                    [newbus.tree[1] EXCEPT !.oid = self.oid, !.class = self.class], 0))))

\* vehicle 5666 a few minutes later, and two records the library cannot
\* build a Bus from: one without spd, one whose lat is no number
Vehicle5666Later ==
    Child("vehicle",
          << Field("vid", <<"5666">>), Field("tmstmp", <<"20140925", " ", "22:51:00">>),
             Field("lat", <<"40.44410">>), Field("lon", <<"-79.94895">>),
             Field("hdg", <<"90">>), Field("pid", <<"2250">>), Field("rt", <<"28X">>),
             Field("des", <<"Downtown">>), Field("pdist", <<"51200">>),
             Field("spd", <<"0">>), Field("dly", <<"true">>) >>)
VehicleNoSpeed ==
    Child("vehicle",
          << Field("vid", <<"5666">>), Field("tmstmp", <<"20140925", " ", "22:51:00">>),
             Field("lat", <<"40.44410">>), Field("lon", <<"-79.94895">>),
             Field("hdg", <<"90">>), Field("pid", <<"2250">>), Field("rt", <<"28X">>),
             Field("des", <<"Downtown">>), Field("pdist", <<"51200">>) >>)
VehicleBadLat ==
    Child("vehicle",
          << Field("vid", <<"5666">>), Field("tmstmp", <<"20140925", " ", "22:51:00">>),
             Field("lat", <<"n/a">>), Field("lon", <<"-79.94895">>),
             Field("hdg", <<"90">>), Field("pid", <<"2250">>), Field("rt", <<"28X">>),
             Field("des", <<"Downtown">>), Field("pdist", <<"51200">>),
             Field("spd", <<"0">>) >>)

\* what the vehicles request of an update can meet
UpdateAnswers ==
    Answers("VEHICLES")
        \cup { Up(XmlBody(RESPONSE_TOKEN, <<rec>>)) :
                rec \in {Vehicle5667, Vehicle5666Later, VehicleNoSpeed, VehicleBadLat} }

\* The Bus of the caller: built from a record by Bus.fromapi, an OfflineBus
\* that a Prediction gave, or, where the API answers in JSON, a Bus taken
\* from Route.busses
HeldBusses(a) ==
    { HeldBus(a), Bus_fromapi(a, PyDict(Vehicle5667.fields), 1).tree[1],
      OfflineBus(PyStr(<<"5666">>), 1) }
        \cup IF a.format # "json" THEN {}
             ELSE { Route_busses(HeldRoute(a), 1, <<>>,
                                 Up(DataBody("vehicle", 1))).outcome.tree[1] }

InitBus ==
    /\ api \in EntityApis
    /\ heldbus \in HeldBusses(api)
    /\ pred = NoObj
    /\ route = NoObj
    \* a Bus taken from the API has cost a request
    /\ qjDefault = IF heldbus.class = "Bus" /\ heldbus.route \in {HeldRoute(api)}
                   THEN endpoint_default(api, <<>>) ELSE <<>>
    /\ callers = <<>>
    /\ Fresh

BusUpdate ==
    \E ans \in UpdateAnswers :
      \E eff \in { Bus_update(heldbus, nextid, qjDefault, ans) } :
        /\ Apply("Bus.update", <<>>, eff, ans)
        /\ heldbus' = eff.self
        /\ UNCHANGED <<pred, route, all_routes, routesFetched>>

BusGet ==
    \E vid \in {PyStr(<<"5666">>), PyInt(5667)},
       ans1 \in Answers("VEHICLES"), ans2 \in Answers("VEHICLES") :
      \E eff \in { Bus_get(api, vid, nextid, qjDefault, ans1, ans2) } :
        /\ Apply("Bus.get", << <<"vid", vid>> >>, eff,
                 IF Len(eff.sent) = 2 THEN ans2 ELSE ans1)
        /\ UNCHANGED <<heldbus, pred, route, all_routes, routesFetched>>

\* a session on one Bus
NextUpdate == BusGet \/ BusUpdate \/ Proceed

SpecUpdate == InitBus /\ [][NextUpdate]_vars

-----------------------------------------------------------------------------
(* Comparing and hashing Stops and Routes                                   *)

\* hash(text): equal texts have equal hashes; the model keeps the hashes of
\* different texts apart
hash(text) == <<"hash", text>>

\* "{}".format(location) of a pair of texts
FormatPair(location) ==
    <<"(">> \o Repr(PyStr(location[1].s)) \o <<",", " ">>
            \o Repr(PyStr(location[2].s)) \o <<")">>

\* Stop.__repr__, which str() of a Stop takes for want of a __str__
Stop_repr(self) ==
    <<self.class, "(">> \o Format(self.id) \o <<",", " ">> \o Format(self.name) \o <<")">>

\* StopWithLocation.__str__
StopWithLocation_str(self) ==
    <<"<Stop", " ", "#">> \o Format(self.id) \o <<" ">>
        \o (IF Truthy(self.name) THEN Format(self.name) ELSE <<"(Unnamed)">>)
        \o <<" ", "at", " ">> \o FormatPair(self.location) \o <<">">>

\* Stop.__hash__
Stop_hash(self) ==
    hash(IF self.class = "StopWithLocation" THEN StopWithLocation_str(self)
         ELSE Stop_repr(self))

\* Route.__str__
Route_str(self) == Format(self.number) \o <<" ">> \o Format(self.name)

\* Route.__hash__
Route_hash(self) == hash(Route_str(self))

\* a == b of two objects whose classes define no __eq__: object's own
\* comparison, true of an object and itself only
object_eq(a, b) == a.oid = b.oid

\* the route 28X under the name of another timetable
Route28XRenamed ==
    Child("route", << Field("rt", <<"28X">>), Field("rtnm", Words(<<"AIRPORT", "EXPRESS">>)),
                      Field("rtclr", <<"#9900ff">>) >>)

\* The Stops a caller can come by: from Stop.get, from Prediction.stop and
\* from StopWithLocation.fromapi
StopsMade(a, oid) ==
    { Stop_get(a, PyStr(<<"4123">>), oid), Stop_get(a, PyStr(<<"1605">>), oid) }
    \cup { Prediction_stop(p, oid, <<>>).outcome.tree[1] :
             p \in { Prediction_fromapi(a, PyDict(rec.fields), 3).tree[1] :
                       rec \in {Prediction5666, Prediction5667} } }
    \cup { StopWithLocation_fromapi(a, PyDict(rec.fields), oid).tree[1] :
             rec \in {Stop4123, Stop1605, Stop7117} }

\* The Routes a caller can come by: from Route.fromapi
RoutesMade(a, oid) ==
    { Route_fromapi(a, PyDict(rec.fields), oid).tree[1] :
        rec \in {Route28XColor, Route13Color, Route28XRenamed} }

\* (a == b, hash(a) == hash(b)) of two objects
Compared(a, b, ha, hb) ==
    Effect(Return("tuple", <<PyBool(object_eq(a, b)), PyBool(ha = hb)>>, <<>>),
           <<>>, qjDefault, NoObj, 0)

\* The caller compares two Stops, or a Stop with itself
StopsCompared ==
    \E a \in StopsMade(api, nextid), other \in StopsMade(api, nextid + 1),
       alias \in BOOLEAN :
      \E b \in { IF alias THEN a ELSE other } :
        \E eff \in { Compared(a, b, Stop_hash(a), Stop_hash(b)) } :
          /\ Apply("Stop.compare", << <<"a", a>>, <<"b", b>> >>, eff, Up(NoBody))
          /\ UNCHANGED <<heldbus, pred, route, all_routes, routesFetched>>

\* The caller compares two Routes, or a Route with itself
RoutesCompared ==
    \E a \in RoutesMade(api, nextid), other \in RoutesMade(api, nextid + 1),
       alias \in BOOLEAN :
      \E b \in { IF alias THEN a ELSE other } :
        \E eff \in { Compared(a, b, Route_hash(a), Route_hash(b)) } :
          /\ Apply("Route.compare", << <<"a", a>>, <<"b", b>> >>, eff, Up(NoBody))
          /\ UNCHANGED <<heldbus, pred, route, all_routes, routesFetched>>

NextIdentity == StopsCompared \/ RoutesCompared \/ Proceed

SpecIdentity == InitEntity /\ [][NextIdentity]_vars

-----------------------------------------------------------------------------
(* A caller asking for patterns again and again: geopatterns and            *)
(* _lru_geopatterns.  The log keeps, for each request, the parameters of    *)
(* the call that issued it and whether it was answered with data.           *)

\* the calls a caller makes in a row
MaxCalls == 2

\* _lru_geopatterns(url): self.response(url), whatever was fetched before
lru_geopatterns(a, r, nt) == response(a, r, nt)

Pattern2250 ==
    Child("ptr", << Field("pid", <<"2250">>), Field("ln", <<"49113">>),
                    Field("rtdir", <<"INBOUND">>) >>)

PatternAnswers ==
    { [net |-> "down", body |-> NoBody],
      Up(XmlBody(RESPONSE_TOKEN, <<Pattern2250>>)),
      Up(XmlBody(RESPONSE_TOKEN, <<ErrNoData>>)),
      Up(XmlBody(RESPONSE_TOKEN, <<ErrLimit>>)) }

PatternIds == { PyNone, PyStr(<<"28X">>), PyList(<< PyStr(<<"2250">>), PyStr(<<"2251">>) >>) }

\* geopatterns(rt, pid), which leaves the request of its url to
\* _lru_geopatterns
GeopatternsAgain ==
    /\ Len(sent) < MaxCalls
    /\ \E rt \in PatternIds, pid \in PatternIds, ans \in PatternAnswers :
         \E done \in { geopatterns(api, rt, pid, qjDefault, ans.body, ans.net) } :
           /\ done.outcome = IF done.nreq = 0 THEN done.outcome
                             ELSE lru_geopatterns(api, ans.body, ans.net)
           /\ call' = [op |-> "geopatterns", endpt |-> "R_GEO",
                       params |-> << <<"rt", rt>>, <<"pid", pid>> >>]
           /\ outcome' = done.outcome
           /\ nreq' = done.nreq
           /\ url' = done.url
           /\ qjDefault' = done.dflt
           /\ sent' = sent \o (IF done.nreq = 0 THEN <<>>
                               ELSE << [endpt |-> "R_GEO", url |-> done.url,
                                        params |-> << <<"rt", rt>>, <<"pid", pid>> >>,
                                        answered |-> done.outcome.kind = "return"] >>)
           /\ resp' = IF done.nreq = 0 THEN resp ELSE ans.body
           /\ net' = IF done.nreq = 0 THEN net ELSE ans.net
           /\ pc' = "called"
           /\ UNCHANGED <<api, nextid, heldbus, pred, route, all_routes, routesFetched,
                          callers>>

NextPatterns == GeopatternsAgain

SpecPatterns == InitEntity /\ [][NextPatterns]_vars

-----------------------------------------------------------------------------
(* A caller that comes back after a failure: lookups in the registry and    *)
(* accesses to both stop lists of the Route it holds, in any order          *)

NextRetry == RouteGet \/ InboundStops \/ OutboundStops \/ Proceed

SpecRetry == InitEntity /\ [][NextRetry]_vars

-----------------------------------------------------------------------------
(* Claims about the entities built from records: SpecBuild                  *)

\* the operation of the session has ended
Called(op) == pc = "called" /\ call.op = op

\* the request of the operation met the API's data: n >= 1 records
MetData == net = "up" /\ HasWrapper(resp) /\ ErrorsOf(resp) = <<>> /\ Len(resp.children) >= 1

\* the relationships that give one child for each record of the response
Relationships ==
    { "Bus.predictions", "Stop.predictions", "Route.busses",
      "Route.inbound_stops", "Route.outbound_stops", "Route.get" }

\* the children an ended relationship produced
Produced ==
    CASE call.op = "Route.get" -> Len(all_routes)
      [] call.op \in {"Route.inbound_stops", "Route.outbound_stops"} ->
            IF outcome.kind = "return" THEN Len(outcome.tree[1].items) ELSE 0
      [] OTHER -> IF outcome.kind = "return" THEN Len(outcome.tree) ELSE 0

\* C11: on an API instance that asks for JSON, a relationship whose request
\* met data produces as many children as the response has records, whether
\* the response has one record (a bare record) or several (a list); and
\* Bus.next_stop gives the prediction of the first record.
C11_OneChildPerRecord ==
    (pc = "called" /\ api.format = "json" /\ MetData /\ nreq = 1)
        => /\ call.op \in Relationships => Produced = Len(resp.children)
           /\ call.op = "Bus.next_stop" => outcome.kind = "return"

\* the record handed to Bus.fromapi
BusRecord == call.params[1][2]

\* C12: the Bus that Bus.fromapi returns has a boolean delayed flag, False
\* when the record has no dly field; its location is the pair of the
\* record's lat and lon as numbers; vid, patternid, dist_in_trip, speed,
\* route and destination are the record's vid, pid, pdist, spd, rt and des;
\* timeupdated is the record's tmstmp as a wall-clock time in US/Eastern.
C12_BusFromRecord ==
    (Called("Bus.fromapi") /\ outcome.kind = "return")
        => LET bus == outcome.tree[1]
           IN  /\ bus.delayed.t = "bool"
               /\ ~HasField(BusRecord, "dly") => bus.delayed = PyBool(FALSE)
               /\ bus.location = << float(Item(BusRecord, "lat")),
                                    float(Item(BusRecord, "lon")) >>
               /\ bus.vid = Item(BusRecord, "vid")
               /\ bus.patternid = Item(BusRecord, "pid")
               /\ bus.dist_in_trip = Item(BusRecord, "pdist")
               /\ bus.speed = Item(BusRecord, "spd")
               /\ bus.route = Item(BusRecord, "rt")
               /\ bus.destination = Item(BusRecord, "des")
               /\ bus.timeupdated = localize(strptime(Item(BusRecord, "tmstmp")))

\* the bulletin records handed to Bulletin.fromapi, as dicts
BulletinRecords ==
    [i \in 1..Len(call.params[1][2].children) |->
        PyDict(call.params[1][2].children[i].fields)]

\* C13: of the Bulletins that Bulletin.fromapi builds from a list of
\* records, one built from a record without nm has the id "n/a", one built
\* from a record with nm has that nm as its id, and one built from a record
\* with prty has that prty as its priority.
C13_SentinelIsFallback ==
    (Called("Bulletin.fromapi") /\ outcome.kind = "return")
        => \A i \in 1..Len(outcome.tree) :
              /\ outcome.tree[i].id =
                    IF HasField(BulletinRecords[i], "nm")
                    THEN Item(BulletinRecords[i], "nm") ELSE PyStr(<<"n/a">>)
              /\ HasField(BulletinRecords[i], "prty")
                    => outcome.tree[i].priority = Item(BulletinRecords[i], "prty")

\* the text of a field that may be absent
TextOf(rec, k) == IF Get(rec, k).t = "str" THEN Get(rec, k).s ELSE <<>>

\* C14: Bulletin.fromapi applied to a list of bulletin records, each with or
\* without dtl and with or without brf, does not raise: it builds one
\* Bulletin for each record, and the body of each holds the text of the dtl
\* and of the brf the record has, in that order.
C14_BodyOfPresentFields ==
    (Called("Bulletin.fromapi") /\ Len(BulletinRecords) >= 2)
        => /\ outcome.kind = "return"
           /\ Len(outcome.tree) = Len(BulletinRecords)
           /\ \A i \in 1..Len(BulletinRecords) :
                /\ outcome.tree[i].body.t = "str"
                /\ Contains(TextOf(BulletinRecords[i], "dtl"), outcome.tree[i].body.s)
                /\ Contains(TextOf(BulletinRecords[i], "brf"), outcome.tree[i].body.s)

-----------------------------------------------------------------------------
(* Claims about the lazy relationships of a Prediction: SpecLazy            *)

\* the step is an access to the property
Accesses(op) == pc' = "called" /\ call'.op = op

Terminal(p) == IsSet(p.busobj)

MetError == net = "up" /\ HasWrapper(resp) /\ Len(ErrorsOf(resp)) >= 1

\* C17: on an API instance of a documented format, an access to
\* Prediction.bus whose vehicles request was answered with an error of the
\* API does not raise: it returns an OfflineBus, now held by the Prediction,
\* whose vid is the Prediction's vehicle ID.
C17_ErrorAnswerDegrades ==
    (Called("Prediction.bus") /\ nreq = 1 /\ api.format \in ValidFormats /\ MetError)
        => /\ outcome = Return("Bus", <<pred.busobj>>, <<>>)
           /\ pred.busobj.class = "OfflineBus"
           /\ pred.busobj.vid = pred.vid

C17_Witness ==
    /\ Called("Prediction.bus") /\ nreq = 1 /\ api.format \in ValidFormats /\ MetError
    /\ outcome.kind = "return"
    /\ outcome.tree[1].class = "OfflineBus" /\ outcome.tree[1].vid = pred.vid
    /\ pred.busobj = outcome.tree[1]

-----------------------------------------------------------------------------
(* Claims about the route registry (SpecRegistry) and about the stop lists  *)
(* of a Route (SpecRoute)                                                   *)

\* C18 as the specification states it: the lookups of a process issue at
\* most one request for the route list between them.
C18_FetchedAtMostOnce == routesFetched <= 1

\* the registry indexes route object r under the designator rt
Indexed(registry, rt, r) ==
    \E i \in 1..Len(registry) : registry[i][1] = Str(rt) /\ registry[i][2] = r

\* C18: in every step of a session, a populated registry stays what it is;
\* every lookup by Route.get issues at most one request for the route list;
\* a lookup that finds the registry populated issues none, and returns the
\* Route the registry indexes under the designator (it raises KeyError when
\* there is none); a lookup that populates the registry has issued exactly
\* one request.
C18_NoFetchOncePopulated ==
    [][ /\ all_routes # <<>> => all_routes' = all_routes
        /\ Accesses("Route.get")
            => /\ nreq' <= 1
               /\ routesFetched' = routesFetched + nreq'
               /\ all_routes # <<>>
                    => /\ nreq' = 0 /\ sent' = <<>>
                       /\ IF \E r \in {all_routes[i][2] : i \in 1..Len(all_routes)} :
                                Indexed(all_routes, call'.params[1][2], r)
                          THEN /\ outcome'.kind = "return"
                               /\ Indexed(all_routes, call'.params[1][2], outcome'.tree[1])
                          ELSE outcome'.kind = "raise" /\ outcome'.exc = "KeyError"
               /\ (all_routes = <<>> /\ all_routes' # <<>>) => nreq' = 1 ]_vars

\* a lookup has been served from the registry that an earlier lookup
\* populated with the one request of the session
C18_Witness ==
    /\ Called("Route.get") /\ nreq = 0 /\ routesFetched = 1
    /\ all_routes # <<>>
    /\ outcome.kind = "return"
    /\ Indexed(all_routes, call.params[1][2], outcome.tree[1])

\* the stop-list keys of a Route and the direction each is fetched with
StopKeys == {"inbound", "outbound"}
DirectionOf(key) == IF key = "inbound" THEN "INBOUND" ELSE "OUTBOUND"

\* the stops requests for the direction of key among the requests log
StopsRequests(log, key) ==
    Len(SelectSeq(log, LAMBDA q :
            q.endpt = "STOPS" /\ Contains(<<"dir", "=", DirectionOf(key)>>, q.url)))

\* C20: in every step of a session on one Route and for each direction, a
\* stop list the Route holds stays the list it holds and the step issues no
\* stops request for that direction; a step that makes the Route hold a list
\* has issued exactly one stops request for the direction; and an access to
\* inbound_stops or outbound_stops that returns, returns the list held.
C20_StopListKept ==
    [][ /\ \A key \in StopKeys :
            /\ HasStops(route, key)
                => /\ HasStops(route', key)
                   /\ StopsAt(route', key) = StopsAt(route, key)
                   /\ StopsRequests(sent', key) = 0
            /\ (~HasStops(route, key) /\ HasStops(route', key))
                => StopsRequests(sent', key) = 1
        /\ (Accesses("Route.inbound_stops") /\ outcome'.kind = "return")
            => HasStops(route', "inbound") /\ outcome'.tree[1] = StopsAt(route', "inbound")
        /\ (Accesses("Route.outbound_stops") /\ outcome'.kind = "return")
            => HasStops(route', "outbound") /\ outcome'.tree[1] = StopsAt(route', "outbound")
      ]_vars

\* inbound_stops has returned, without a request, the list it held before
\* the outbound list was fetched
C20_Witness ==
    /\ Called("Route.inbound_stops") /\ nreq = 0
    /\ HasStops(route, "inbound") /\ HasStops(route, "outbound")
    /\ StopsAt(route, "inbound").oid < StopsAt(route, "outbound").oid
    /\ outcome = Return("list", <<StopsAt(route, "inbound")>>, <<>>)

-----------------------------------------------------------------------------
(* Claim about concurrent lookups: SpecRace                                 *)

\* both callers have got a Route from Route.get
BothReturned ==
    \A c \in 1..Len(callers) :
        callers[c].pc = "done" /\ callers[c].result.kind = "return"

\* C19: when the two callers that entered Route.get have both got a Route,
\* one request for the route list has been issued at most, and the Route of
\* each caller is the one the registry indexes under the caller's
\* designator, whatever the order of the callers' steps was.
C19_SingleFlight ==
    BothReturned
        => /\ routesFetched <= 1
           /\ \A c \in 1..Len(callers) :
                Indexed(all_routes, callers[c].rt, callers[c].result.tree[1])

-----------------------------------------------------------------------------
(* Claims about a Bus: SpecUpdate                                           *)

\* the record of the one vehicle the last response holds
FetchedRecord == PyDict(resp.children[1].fields)

\* C21: every call of Bus.update either raises and leaves the Bus exactly as
\* it was, or returns after one request, and then the Bus, still the same
\* object, has the attributes of the Bus that Bus.fromapi builds from the
\* one record that request fetched; no call leaves anything else.
C21_UpdateIsAtomic ==
    [][ Accesses("Bus.update")
            => \/ outcome'.kind = "raise" /\ heldbus' = heldbus
               \/ /\ outcome'.kind = "return" /\ nreq' = 1
                  /\ net' = "up" /\ Len(resp'.children) = 1
                  /\ \E fresh \in { Bus_fromapi(api, PyDict(resp'.children[1].fields),
                                                heldbus.oid) } :
                        /\ fresh.kind = "return"
                        /\ heldbus' = [fresh.tree[1] EXCEPT !.class = heldbus.class]
      ]_vars

\* an update has failed after its request was answered, on a record whose
\* lat is no number, and the Bus still has the attributes of another record
C21_Witness ==
    /\ Called("Bus.update") /\ nreq = 1 /\ MetData
    /\ outcome.kind = "raise" /\ outcome.exc = "ValueError"
    /\ FetchedRecord = PyDict(VehicleBadLat.fields)
    /\ heldbus.class = "Bus"
    /\ heldbus.destination # Item(FetchedRecord, "des")
    /\ heldbus.location[1].t = "float"

\* C28: a call of Bus.get that returns a Bus has issued exactly one vehicles
\* request, and no call of Bus.get issues more than one.
C28_GetIssuesOneRequest ==
    Called("Bus.get")
        => /\ nreq <= 1
           /\ outcome.kind = "return" => nreq = 1

-----------------------------------------------------------------------------
(* Claims about identity: SpecIdentity                                      *)

ComparedA == call.params[1][2]
ComparedB == call.params[2][2]
SaidEqual == outcome.tree[1] = PyBool(TRUE)
SaidSameHash == outcome.tree[2] = PyBool(TRUE)

\* C22: two Stops with the same ID compare equal and hash equal whatever
\* their other fields, and two Stops with different IDs compare unequal;
\* likewise two Routes, by their number.
C22_IdentityByExternalId ==
    /\ Called("Stop.compare")
         => /\ ComparedA.id = ComparedB.id => SaidEqual /\ SaidSameHash
            /\ ComparedA.id # ComparedB.id => ~SaidEqual
    /\ Called("Route.compare")
         => /\ ComparedA.number = ComparedB.number => SaidEqual /\ SaidSameHash
            /\ ComparedA.number # ComparedB.number => ~SaidEqual

\* C23: a Stop that StopWithLocation.fromapi has built has a name that is a
\* text, the text (Unnamed) where its record holds none.
C23_StopNameNeverAbsent ==
    Called("StopWithLocation.fromapi") /\ outcome.kind = "return"
        => /\ outcome.tree[1].name.t = "str"
           /\ Get(call.params[1][2], "stpnm").t = "none"
                 => outcome.tree[1].name = PyStr(<<"(Unnamed)">>)

\* the one request of the call was answered with the no-data error alone
MetNoData == nreq = 1 /\ MetError /\ ErrorsOf(resp) = <<ErrNoData>>

NoDataOperations == {"Stop.predictions", "Bus.predictions", "Route.busses"}

\* C24: when the service answers with the no-data error, Stop.predictions,
\* Bus.predictions and Route.busses return an empty sequence or raise
\* NoPredictionsError, and none of them raises the plain BustimeError.
C24_NoDataIsDistinguishable ==
    pc = "called" /\ call.op \in NoDataOperations /\ MetNoData
        => \/ outcome.kind = "return" /\ outcome.tree \in { <<>>, <<PyList(<<>>)>> }
           \/ outcome.kind = "raise" /\ outcome.exc = "NoPredictionsError"

\* the body is well-formed data: the wrapper with records and no error
ParsedData ==
    /\ Parsed /\ HasWrapper(resp) /\ Len(ErrorsOf(resp)) = 0 /\ Len(resp.children) >= 1
    /\ ~Contains(<<ERROR_TOKEN>>, RawText(resp))

\* C25: parseresponse applied to well-formed data returns the tree of the
\* body whichever documented format the instance has, and with any other
\* format it does not return without a result.
C25_ParseTreeWhateverFormat ==
    ParsedData
        => /\ api.format \in ValidFormats
                => outcome = Return("tree", XmlToDict(resp), <<>>)
           /\ api.format \notin ValidFormats
                => ~(outcome.kind = "return" /\ outcome.rtype = "None")

\* C26: no geopatterns request repeats the parameters of an earlier request
\* that was answered with data: a second call with the same rt or pid is
\* served from the first call's result.
C26_GeopatternsMemoized ==
    \A i \in 1..Len(sent), j \in 1..Len(sent) :
        (i < j /\ sent[i].answered) => sent[j].params # sent[i].params

-----------------------------------------------------------------------------
(* Claims about failed fetches: SpecRetry                                   *)

\* C27: a lookup in the registry or an access to a stop list whose request
\* fails in transport raises and stores nothing: the registry and the stop
\* lists of the Route are as before; and every lookup that finds the
\* registry empty, and every access that finds its stop list missing,
\* issues a request of its own.
C27_FailedFetchKeepsNoSlot ==
    [][ /\ (pc' = "called" /\ nreq' >= 1 /\ net' = "down")
            => /\ outcome'.kind = "raise"
               /\ all_routes' = all_routes
               /\ route' = route
        /\ (Accesses("Route.get") /\ all_routes = <<>>) => nreq' = 1
        /\ (Accesses("Route.inbound_stops") /\ ~HasStops(route, "inbound")) => nreq' = 1
        /\ (Accesses("Route.outbound_stops") /\ ~HasStops(route, "outbound")) => nreq' = 1
      ]_vars

\* a lookup has populated the registry with a request of its own after an
\* earlier request for the route list failed
C27_Witness ==
    /\ Called("Route.get") /\ nreq = 1 /\ routesFetched >= 2
    /\ outcome.kind = "return" /\ all_routes # <<>>

-----------------------------------------------------------------------------
(* Claims about query building and predictions: SpecCall                    *)

\* the name=value pairs of a query string
PairsOfText(text) ==
    LET parts == Split(text, "&")
    IN  {parts[i] : i \in 1..Len(parts)} \ {<<>>}

\* the name=value pairs that arguments give, None values left out
PairsOfArgs(args) ==
    { <<args[i][1], "=">> \o Format(args[i][2]) :
        i \in {j \in 1..Len(args) : args[j][2].t # "none"} }

\* C29: query building keeps no state: queryjoin leaves the mapping it works
\* on as it found it, so that its default mapping stays empty; queryjoin
\* called with keyword arguments returns the pairs of those arguments and no
\* other; and every pair of a target that endpoint builds comes from the
\* instance's key, the instance's arguments or the parameters passed.
C29_QueryBuildingStateless ==
    /\ qjDefault = <<>>
    /\ call.op = "queryjoin_kw" => PairsOfText(outcome.text) = PairsOfArgs(call.params)
    /\ call.op = "endpoint"
          => Pairs(url) \subseteq
                {<<"key", "=", api.key>>} \cup PairsOfArgs(api.args)
                    \cup PairsOfArgs(call.params)

\* C30: predictions either raises ValueError without a request, or issues
\* exactly one request and gives what response gives for it; it never
\* returns without a request.
C30_PredictionsRequestOrReject ==
    call.op = "predictions"
        => \/ outcome.kind = "raise" /\ outcome.exc = "ValueError" /\ nreq = 0
           \/ nreq = 1 /\ outcome = response(api, resp, net)

====
